---- MODULE Spec2Model ----
(***************************************************************************)
(* Model of the flibusta_kindle_bot user core: the in-memory user          *)
(* repository (internal/user/repository.go), the user Manager              *)
(* (internal/user/manager.go) and the bot Handler (internal/bot/handler.go)*)
(* run by concurrent workers, one per inbound call or update.              *)
(*                                                                         *)
(* Go strings are modelled as sequences of one-character strings, so that  *)
(* len, slicing and suffix comparison are computed as the code computes    *)
(* them.  All inputs are ASCII, where Go's byte length is the length of    *)
(* the sequence.  time.Time values are integers: 0 is the zero time and    *)
(* time.Now() reads the clock `now`, which starts at 1 and may advance     *)
(* between any two steps.                                                  *)
(***************************************************************************)
EXTENDS Integers, Sequences, FiniteSets, TLC

----------------------------------------------------------------------------
(* Bounds of the model *)

\* last value of the clock
MaxTime == 2
\* number of direct repository calls the workers make
MaxStoreCalls == 3
\* number of Manager calls the workers make
MaxCalls == 3
\* number of bot updates (messages and callbacks) the workers take up
MaxUpdates == 2

\* longest local part of the candidates given to ValidateKindleEmail
MaxLocal == 2

\* longest head of the locale hints given to the language detection
MaxHint == 2

\* the concurrent workers (goroutines), the identities stored by direct
\* callers of the repository, and the identities that talk to the bot
Procs == {1, 2}
Ids == {1, 2}
Senders == {1}

----------------------------------------------------------------------------
(* Strings *)

EmptyStr == << >>
KindleSuffix == <<"@","k","i","n","d","l","e",".","c","o","m">>
GmailSuffix == <<"@","g","m","a","i","l",".","c","o","m">>
UpperSuffix == <<"@","K","I","N","D","L","E",".","C","O","M">>
MixedSuffix == <<"@","K","i","n","d","l","e",".","c","o","m">>
NoAtSuffix == <<"k","i","n","d","l","e",".","c","o","m">>
ShortSuffix == <<"@","k","i","n","d","l","e",".","c","o">>
TrailSuffix == <<"@","k","i","n","d","l","e",".","c","o","m"," ">>

LangEn == <<"e","n">>
LangRu == <<"r","u">>
LangFr == <<"f","r">>

\* s[i:] of Go, with 0-based i
SliceFrom(s, i) == SubSeq(s, i + 1, Len(s))
\* s[:j] of Go
SliceTo(s, j) == SubSeq(s, 1, j)

\* strings.TrimSpace, strings.Contains, strings.HasPrefix, strings.TrimPrefix
TrimSpace(s) ==
    LET keep == {i \in 1..Len(s) : s[i] # " "}
    IN  IF keep = {} THEN EmptyStr
        ELSE SubSeq(s, CHOOSE i \in keep : \A j \in keep : i <= j,
                       CHOOSE i \in keep : \A j \in keep : i >= j)

\* a faulty variant of Contains: every text counts as containing sub
ContainsAlways(s, sub) == TRUE

Contains(s, sub) ==
    \E i \in 0..(Len(s) - Len(sub)) : SubSeq(s, i + 1, i + Len(sub)) = sub

HasPrefix(s, pre) == Len(s) >= Len(pre) /\ SliceTo(s, Len(pre)) = pre

TrimPrefix(s, pre) == IF HasPrefix(s, pre) THEN SliceFrom(s, Len(pre)) ELSE s

----------------------------------------------------------------------------
(* internal/user/manager.go: errors and validation *)

ErrNil == "nil"
ErrUserNotFound == "user not found"
ErrInvalidEmail == "invalid Kindle email format"

\* an error of a Repository implementation that is none of the above
ErrStorage == "storage unavailable"

\* a faulty variant of ValidateKindleEmail: the length check of the local part is dropped
ValidateKindleEmailNoLocalPart(email) ==
    IF email = EmptyStr THEN ErrInvalidEmail
    ELSE IF Len(email) < 11 \/ SliceFrom(email, Len(email) - 11) # KindleSuffix
         THEN ErrInvalidEmail
    ELSE ErrNil

\* a faulty variant of ValidateKindleEmail: every non-empty candidate is accepted
ValidateKindleEmailAnyDomain(email) ==
    IF email = EmptyStr THEN ErrInvalidEmail ELSE ErrNil

ValidateKindleEmail(email) ==
    IF email = EmptyStr THEN ErrInvalidEmail
    ELSE IF Len(email) < 11 \/ SliceFrom(email, Len(email) - 11) # KindleSuffix
         THEN ErrInvalidEmail
    ELSE IF Len(email) = 11 THEN ErrInvalidEmail
    ELSE ErrNil

detectLanguage(langCode) ==
    IF Len(langCode) >= 2 /\ SliceTo(langCode, 2) = LangRu THEN LangRu ELSE LangEn

----------------------------------------------------------------------------
(* pkg/models/user.go *)

ZeroUser ==
    [ ID |-> 0, TelegramID |-> 0,
      Username |-> EmptyStr, FirstName |-> EmptyStr, LastName |-> EmptyStr,
      KindleEmail |-> EmptyStr, Language |-> EmptyStr,
      CreatedAt |-> 0, UpdatedAt |-> 0,
      BooksSent |-> 0, LastActive |-> 0,
      IsActive |-> FALSE, IsBanned |-> FALSE ]

ZeroPrefs == [ KindleEmail |-> EmptyStr, Language |-> EmptyStr ]

HasKindleEmail(u) == u.KindleEmail # EmptyStr

IsValidLanguage(u) == u.Language \in {LangEn, LangRu}

----------------------------------------------------------------------------
VARIABLES
    users,   \* MemoryRepository.users: identity -> stored profile
    mu,      \* MemoryRepository.mu: [w: the writer holding it or 0, r: set of readers]
    now,     \* the wall clock read by time.Now()
    pc,      \* per worker: stack of code positions, innermost first
    req,     \* per worker: the call or update it is handling
    mcall,   \* per worker: the Manager call in progress and its arguments
    rop,     \* per worker: the repository operation in progress and its arguments
    rv,      \* per worker: what the repository operation read and returned
    mv,      \* per worker: the local `user` and the result of the Manager call
    out,     \* per worker: replies sent while handling the current update
    lin,     \* history: the store obtained by applying the operations one at a time
    linret,  \* history: per worker, what the one-at-a-time execution returns
    sent,    \* history: per identity, number of successful counter increments
    ncalls,  \* number of calls and updates taken up so far
    fin,     \* input of the pure function under evaluation
    fout     \* its result

vars == << users, mu, now, pc, req, mcall, rop, rv, mv, out, lin, linret, sent,
           ncalls, fin, fout >>

\* `had` records whether the identity had a stored profile when the call or
\* update was taken up
NoReq == [kind |-> "none", id |-> 0, cmd |-> "", text |-> EmptyStr, had |-> FALSE]
NoCall == [fn |-> "none", id |-> 0, username |-> EmptyStr, firstName |-> EmptyStr,
           lastName |-> EmptyStr, langCode |-> EmptyStr, email |-> EmptyStr,
           language |-> EmptyStr]
NoOp == [op |-> "none", id |-> 0, prefs |-> ZeroPrefs, user |-> ZeroUser]
NoRes == [exists |-> FALSE, user |-> ZeroUser, err |-> ErrNil, alias |-> 0]
NoRet == [user |-> ZeroUser, err |-> ErrNil]

Top(p) == Head(pc[p])
Rest(p) == Tail(pc[p])
Idle(p) == pc[p] = <<"done">>

----------------------------------------------------------------------------
(* internal/user/repository.go: MemoryRepository *)

NewMemoryRepository == << >>

\* a faulty variant of CanLock: the operations do not exclude each other
CanLockNoExclusion(m, op) == TRUE

\* mu.RLock() of GetUser succeeds when no writer holds mu; mu.Lock() of the
\* other operations when nobody holds it
CanLock(m, op) ==
    IF op = "GetUser" THEN m.w = 0 ELSE m.w = 0 /\ m.r = {}

Acquire(m, op, p) ==
    IF op = "GetUser" THEN [m EXCEPT !.r = @ \cup {p}] ELSE [m EXCEPT !.w = p]

\* a faulty variant of Release: GetUser returns without mu.RUnlock()
ReleaseKeepsReader(m, op, p) ==
    IF op = "GetUser" THEN m ELSE [m EXCEPT !.w = 0]

\* a faulty variant of Release: a writer returns without mu.Unlock()
ReleaseKeepsWriter(m, op, p) ==
    IF op = "GetUser" THEN [m EXCEPT !.r = @ \ {p}] ELSE m

\* the deferred mu.RUnlock() / mu.Unlock()
Release(m, op, p) ==
    IF op = "GetUser" THEN [m EXCEPT !.r = @ \ {p}] ELSE [m EXCEPT !.w = 0]

\* r.users[user.TelegramID] = &userCopy
MapPut(store, id, u) ==
    [i \in DOMAIN store \cup {id} |-> IF i = id THEN u ELSE store[i]]

\* user, exists := r.users[telegramID]
Lookup(store, id) ==
    IF id \in DOMAIN store
    THEN [exists |-> TRUE, user |-> store[id], err |-> ErrNil, alias |-> 0]
    ELSE NoRes

\* The body of a repository operation o run at time t on `store`, where
\* `found` is what its lookup read.  Result: the store afterwards, the
\* profile handed back to the caller (GetUser's copy, or the caller's struct
\* as SaveUser leaves it) and the error.  `alias` is the identity whose stored
\* object the caller's pointer refers to, 0 when it refers to no stored
\* object: GetUser returns &userCopy and SaveUser stores &userCopy.

\* a faulty variant of GetUser: the stored pointer itself is returned
GetUserNoCopy(store, o, found, t) ==
    IF ~found.exists
    THEN [store |-> store, user |-> ZeroUser, err |-> ErrUserNotFound, alias |-> 0]
    ELSE [store |-> store, user |-> found.user, err |-> ErrNil, alias |-> o.id]

\* a faulty variant of SaveUser: BooksSent of a stored profile survives
SaveUserKeepCount(store, o, found, t) ==
    LET u == [o.user EXCEPT !.UpdatedAt = t]
        v == IF u.TelegramID \in DOMAIN store
             THEN [u EXCEPT !.BooksSent = store[u.TelegramID].BooksSent] ELSE u
    IN  [store |-> MapPut(store, u.TelegramID, v), user |-> u, err |-> ErrNil,
         alias |-> 0]

GetUser(store, o, found, t) ==
    IF ~found.exists
    THEN [store |-> store, user |-> ZeroUser, err |-> ErrUserNotFound, alias |-> 0]
    ELSE [store |-> store, user |-> found.user, err |-> ErrNil, alias |-> 0]

SaveUser(store, o, found, t) ==
    LET u == [o.user EXCEPT !.UpdatedAt = t]
    IN  [store |-> MapPut(store, u.TelegramID, u), user |-> u, err |-> ErrNil, alias |-> 0]

\* a faulty variant of UpdatePreferences: empty fields of prefs overwrite too
UpdatePreferencesOverwrite(store, o, found, t) ==
    IF ~found.exists
    THEN [store |-> store, user |-> ZeroUser, err |-> ErrUserNotFound, alias |-> 0]
    ELSE [store |-> [store EXCEPT ![o.id] =
                        [@ EXCEPT !.KindleEmail = o.prefs.KindleEmail,
                                  !.Language = o.prefs.Language,
                                  !.UpdatedAt = t]],
          user |-> ZeroUser, err |-> ErrNil, alias |-> 0]

UpdatePreferences(store, o, found, t) ==
    IF ~found.exists
    THEN [store |-> store, user |-> ZeroUser, err |-> ErrUserNotFound, alias |-> 0]
    ELSE [store |-> [store EXCEPT ![o.id] =
                        [@ EXCEPT !.KindleEmail = IF o.prefs.KindleEmail # EmptyStr
                                                  THEN o.prefs.KindleEmail ELSE @,
                                  !.Language = IF o.prefs.Language # EmptyStr
                                               THEN o.prefs.Language ELSE @,
                                  !.UpdatedAt = t]],
          user |-> ZeroUser, err |-> ErrNil, alias |-> 0]

\* a faulty variant of IncrementBooksSent: the send also counts as activity
IncrementBooksSentActive(store, o, found, t) ==
    IF ~found.exists
    THEN [store |-> store, user |-> ZeroUser, err |-> ErrUserNotFound, alias |-> 0]
    ELSE [store |-> [store EXCEPT ![o.id] =
                        [@ EXCEPT !.BooksSent = found.user.BooksSent + 1,
                                  !.UpdatedAt = t, !.LastActive = t]],
          user |-> ZeroUser, err |-> ErrNil, alias |-> 0]

IncrementBooksSent(store, o, found, t) ==
    IF ~found.exists
    THEN [store |-> store, user |-> ZeroUser, err |-> ErrUserNotFound, alias |-> 0]
    ELSE [store |-> [store EXCEPT ![o.id] =
                        [@ EXCEPT !.BooksSent = found.user.BooksSent + 1,
                                  !.UpdatedAt = t]],
          user |-> ZeroUser, err |-> ErrNil, alias |-> 0]

\* a faulty variant of UpdateLastActive: an unknown identity gets a profile
UpdateLastActiveUpsert(store, o, found, t) ==
    IF ~found.exists
    THEN [store |-> MapPut(store, o.id, [ZeroUser EXCEPT !.TelegramID = o.id,
                                                         !.LastActive = t]),
          user |-> ZeroUser, err |-> ErrNil, alias |-> 0]
    ELSE [store |-> [store EXCEPT ![o.id] = [@ EXCEPT !.LastActive = t]],
          user |-> ZeroUser, err |-> ErrNil, alias |-> 0]

UpdateLastActive(store, o, found, t) ==
    IF ~found.exists
    THEN [store |-> store, user |-> ZeroUser, err |-> ErrUserNotFound, alias |-> 0]
    ELSE [store |-> [store EXCEPT ![o.id] = [@ EXCEPT !.LastActive = t]],
          user |-> ZeroUser, err |-> ErrNil, alias |-> 0]

RepoExec(store, o, found, t) ==
    CASE o.op = "GetUser" -> GetUser(store, o, found, t)
      [] o.op = "SaveUser" -> SaveUser(store, o, found, t)
      [] o.op = "UpdatePreferences" -> UpdatePreferences(store, o, found, t)
      [] o.op = "IncrementBooksSent" -> IncrementBooksSent(store, o, found, t)
      [] o.op = "UpdateLastActive" -> UpdateLastActive(store, o, found, t)

\* First step of every repository operation: take mu and look the profile up.
RepoLock(p) ==
    /\ Top(p) = "repo_lock"
    /\ CanLock(mu, rop[p].op)
    /\ mu' = Acquire(mu, rop[p].op, p)
    /\ rv' = [rv EXCEPT ![p] = IF rop[p].op = "SaveUser" THEN NoRes
                               ELSE Lookup(users, rop[p].id)]
    /\ pc' = [pc EXCEPT ![p] = <<"repo_body">> \o Rest(p)]
    /\ UNCHANGED << users, now, req, mcall, rop, mv, out, lin, linret, sent,
                    ncalls, fin, fout >>

\* Second step: the writes of the body, the deferred unlock and the return.
\* lin and linret record the same operation run in one piece at this moment.
RepoBody(p) ==
    /\ Top(p) = "repo_body"
    /\ LET o == rop[p]
           r == RepoExec(users, o, rv[p], now)
           g == RepoExec(lin, o, Lookup(lin, o.id), now)
       IN  /\ users' = r.store
           /\ rv' = [rv EXCEPT ![p] = [exists |-> rv[p].exists, user |-> r.user,
                                       err |-> r.err, alias |-> r.alias]]
           /\ lin' = g.store
           /\ linret' = [linret EXCEPT ![p] = [user |-> g.user, err |-> g.err]]
           /\ sent' = IF o.op = "IncrementBooksSent" /\ r.err = ErrNil
                      THEN [sent EXCEPT ![o.id] = @ + 1] ELSE sent
           /\ mu' = Release(mu, o.op, p)
    /\ pc' = [pc EXCEPT ![p] = Rest(p)]
    /\ UNCHANGED << now, req, mcall, rop, mv, out, ncalls, fin, fout >>

\* An operation of a Repository whose backend fails: the error is returned
\* and nothing is stored.  MemoryRepository never does this; the Manager is
\* written against the Repository interface.
RepoFail(p) ==
    /\ Top(p) = "repo_lock"
    /\ rv' = [rv EXCEPT ![p] = [NoRes EXCEPT !.err = ErrStorage]]
    /\ pc' = [pc EXCEPT ![p] = Rest(p)]
    /\ UNCHANGED << users, mu, now, req, mcall, rop, mv, out, lin, linret, sent,
                    ncalls, fin, fout >>

\* time passes
Tick ==
    /\ now < MaxTime
    /\ now' = now + 1
    /\ UNCHANGED << users, mu, pc, req, mcall, rop, rv, mv, out, lin, linret,
                    sent, ncalls, fin, fout >>

----------------------------------------------------------------------------
(* Clients calling the repository directly *)

EmailA == <<"a">> \o KindleSuffix
EmailB == <<"b">> \o KindleSuffix
EmailGmail == <<"a">> \o GmailSuffix

\* the profile a client of the repository passes to SaveUser
SaveInputs ==
    { [ZeroUser EXCEPT !.ID = i, !.TelegramID = i, !.Language = LangEn,
                       !.KindleEmail = EmailB] : i \in Ids }

\* the preferences a client of the repository passes to UpdatePreferences
PrefsInputs ==
    { [KindleEmail |-> e, Language |-> l] :
        e \in {EmptyStr, EmailA}, l \in {EmptyStr, LangRu} }

CallRepo(p, o) ==
    /\ Idle(p)
    /\ ncalls' = ncalls + 1
    /\ req' = [req EXCEPT ![p] = [NoReq EXCEPT !.kind = o.op, !.id = o.id,
                                                !.had = o.id \in DOMAIN users]]
    /\ rop' = [rop EXCEPT ![p] = o]
    /\ pc' = [pc EXCEPT ![p] = <<"repo_lock", "done">>]
    /\ mcall' = [mcall EXCEPT ![p] = NoCall]
    /\ mv' = [mv EXCEPT ![p] = NoRet]
    /\ out' = [out EXCEPT ![p] = << >>]
    /\ UNCHANGED << users, mu, now, rv, lin, linret, sent, fin, fout >>

CallGetUser(p) ==
    \E i \in Ids : CallRepo(p, [NoOp EXCEPT !.op = "GetUser", !.id = i])

CallSaveUser(p) ==
    \E u \in SaveInputs :
        CallRepo(p, [NoOp EXCEPT !.op = "SaveUser", !.id = u.TelegramID, !.user = u])

CallUpdatePreferences(p) ==
    \E i \in Ids, pr \in PrefsInputs :
        CallRepo(p, [NoOp EXCEPT !.op = "UpdatePreferences", !.id = i, !.prefs = pr])

CallIncrementBooksSent(p) ==
    \E i \in Ids :
        CallRepo(p, [NoOp EXCEPT !.op = "IncrementBooksSent", !.id = i])

CallUpdateLastActive(p) ==
    \E i \in Ids : CallRepo(p, [NoOp EXCEPT !.op = "UpdateLastActive", !.id = i])

\* what a caller may do to the profile it holds through a pointer
Scribbles(u) ==
    { [u EXCEPT !.KindleEmail = EmailGmail], [u EXCEPT !.Language = LangFr],
      [u EXCEPT !.BooksSent = 9], [u EXCEPT !.CreatedAt = MaxTime] } \ {u}

\* The caller of a completed GetUser or SaveUser writes to the profile it
\* holds; the write reaches the store when the pointer refers to a stored object.
MutateHeld(p) ==
    /\ Idle(p)
    /\ req[p].kind \in {"GetUser", "SaveUser"}
    /\ rv[p].err = ErrNil
    /\ \E v \in Scribbles(rv[p].user) :
        /\ rv' = [rv EXCEPT ![p].user = v]
        /\ users' = IF rv[p].alias \in DOMAIN users
                    THEN [users EXCEPT ![rv[p].alias] = v] ELSE users
    /\ UNCHANGED << mu, now, pc, req, mcall, rop, mv, out, lin, linret, sent,
                    ncalls, fin, fout >>

----------------------------------------------------------------------------
(* internal/user/manager.go: Manager *)

IdStr(i) == IF i = 1 THEN <<"1">> ELSE <<"2">>
CodeRuRU == <<"r","u","-","R","U">>
CodeEnUS == <<"e","n","-","U","S">>

\* the Telegram account of identity i, as updates carry it in From
From(i) ==
    [ ID |-> i, UserName |-> <<"u">> \o IdStr(i), FirstName |-> <<"f">> \o IdStr(i),
      LastName |-> <<"l">> \o IdStr(i),
      LanguageCode |-> IF i = 1 THEN CodeRuRU ELSE CodeEnUS ]

\* a faulty variant of NewUser: TelegramID is left out of the literal
NewUserUnkeyed(c, t) ==
    [ ID |-> c.id, TelegramID |-> 0,
      Username |-> c.username, FirstName |-> c.firstName, LastName |-> c.lastName,
      KindleEmail |-> EmptyStr, Language |-> detectLanguage(c.langCode),
      CreatedAt |-> t, UpdatedAt |-> t,
      BooksSent |-> 0, LastActive |-> t,
      IsActive |-> TRUE, IsBanned |-> FALSE ]

\* the struct literal of GetOrCreateUser, evaluated at time t
NewUser(c, t) ==
    [ ID |-> c.id, TelegramID |-> c.id,
      Username |-> c.username, FirstName |-> c.firstName, LastName |-> c.lastName,
      KindleEmail |-> EmptyStr, Language |-> detectLanguage(c.langCode),
      CreatedAt |-> t, UpdatedAt |-> t,
      BooksSent |-> 0, LastActive |-> t,
      IsActive |-> TRUE, IsBanned |-> FALSE ]

\* Entering a Manager function with continuation k: the statements up to its
\* first repository call.  mv.user is the caller's `user` and is kept.
EnterGetOrCreateUser(c, k, m) ==
    [ pc |-> <<"repo_lock", "goc_got">> \o k,
      rop |-> [NoOp EXCEPT !.op = "GetUser", !.id = c.id],
      mv |-> NoRet ]

\* a faulty variant of EnterSetKindleEmail: the candidate is stored without validation
EnterSetKindleEmailUnchecked(c, k, m) ==
    [ pc |-> <<"repo_lock", "mgr_ret">> \o k,
      rop |-> [NoOp EXCEPT !.op = "UpdatePreferences", !.id = c.id,
                           !.prefs = [ZeroPrefs EXCEPT !.KindleEmail = c.email]],
      mv |-> [m EXCEPT !.err = ErrNil] ]

EnterSetKindleEmail(c, k, m) ==
    IF ValidateKindleEmail(c.email) # ErrNil
    THEN [ pc |-> k, rop |-> NoOp, mv |-> [m EXCEPT !.err = ErrInvalidEmail] ]
    ELSE [ pc |-> <<"repo_lock", "mgr_ret">> \o k,
           rop |-> [NoOp EXCEPT !.op = "UpdatePreferences", !.id = c.id,
                                !.prefs = [ZeroPrefs EXCEPT !.KindleEmail = c.email]],
           mv |-> [m EXCEPT !.err = ErrNil] ]

EnterSetLanguage(c, k, m) ==
    [ pc |-> <<"repo_lock", "mgr_ret">> \o k,
      rop |-> [NoOp EXCEPT !.op = "UpdatePreferences", !.id = c.id,
                           !.prefs = [ZeroPrefs EXCEPT !.Language = c.language]],
      mv |-> [m EXCEPT !.err = ErrNil] ]

EnterRecordBookSent(c, k, m) ==
    [ pc |-> <<"repo_lock", "mgr_ret">> \o k,
      rop |-> [NoOp EXCEPT !.op = "IncrementBooksSent", !.id = c.id],
      mv |-> [m EXCEPT !.err = ErrNil] ]

Enter(c, k, m) ==
    CASE c.fn = "GetOrCreateUser" -> EnterGetOrCreateUser(c, k, m)
      [] c.fn = "SetKindleEmail" -> EnterSetKindleEmail(c, k, m)
      [] c.fn = "SetLanguage" -> EnterSetLanguage(c, k, m)
      [] c.fn = "RecordBookSent" -> EnterRecordBookSent(c, k, m)

\* a faulty variant of Touched: the locale hint of the call replaces the language
TouchedRelocalized(u, c, t) ==
    [u EXCEPT !.LastActive = t, !.Language = detectLanguage(c.langCode)]

\* user.LastActive = time.Now() on the profile GetUser returned for call c
Touched(u, c, t) == [u EXCEPT !.LastActive = t]

\* GetOrCreateUser after m.repo.GetUser returned: touch the profile found, or
\* return its error if that is not ErrUserNotFound, or build a new profile and
\* save it.  With MemoryRepository the only error GetUser returns is
\* ErrUserNotFound.
GocGot(p) ==
    /\ Top(p) = "goc_got"
    /\ IF rv[p].err = ErrNil
       THEN /\ mv' = [mv EXCEPT ![p] = [user |-> Touched(rv[p].user, mcall[p], now),
                                        err |-> ErrNil]]
            /\ rop' = [rop EXCEPT ![p] = [NoOp EXCEPT !.op = "UpdateLastActive",
                                                      !.id = mcall[p].id]]
            /\ pc' = [pc EXCEPT ![p] = <<"repo_lock", "goc_ret">> \o Rest(p)]
       ELSE IF rv[p].err # ErrUserNotFound
       THEN /\ mv' = [mv EXCEPT ![p] = [user |-> ZeroUser, err |-> rv[p].err]]
            /\ rop' = rop
            /\ pc' = [pc EXCEPT ![p] = Rest(p)]
       ELSE /\ mv' = [mv EXCEPT ![p] = [user |-> NewUser(mcall[p], now), err |-> ErrNil]]
            /\ rop' = [rop EXCEPT ![p] = [NoOp EXCEPT !.op = "SaveUser",
                                                      !.id = mcall[p].id,
                                                      !.user = NewUser(mcall[p], now)]]
            /\ pc' = [pc EXCEPT ![p] = <<"repo_lock", "goc_saved">> \o Rest(p)]
    /\ UNCHANGED << users, mu, now, req, mcall, rv, out, lin, linret, sent,
                    ncalls, fin, fout >>

\* a faulty variant of GocRet: a failed UpdateLastActive fails the call
GocRetStrict(p) ==
    /\ Top(p) = "goc_ret"
    /\ mv' = [mv EXCEPT ![p] = IF rv[p].err = ErrNil THEN @
                               ELSE [user |-> ZeroUser, err |-> rv[p].err]]
    /\ pc' = [pc EXCEPT ![p] = Rest(p)]
    /\ UNCHANGED << users, mu, now, req, mcall, rop, rv, out, lin, linret,
                    sent, ncalls, fin, fout >>

\* return user, nil: whether or not UpdateLastActive failed
GocRet(p) ==
    /\ Top(p) = "goc_ret"
    /\ pc' = [pc EXCEPT ![p] = Rest(p)]
    /\ UNCHANGED << users, mu, now, req, mcall, rop, rv, mv, out, lin, linret,
                    sent, ncalls, fin, fout >>

\* after m.repo.SaveUser(ctx, user), which has set user.UpdatedAt
GocSaved(p) ==
    /\ Top(p) = "goc_saved"
    /\ mv' = [mv EXCEPT ![p] = IF rv[p].err = ErrNil
                               THEN [user |-> rv[p].user, err |-> ErrNil]
                               ELSE [user |-> ZeroUser, err |-> rv[p].err]]
    /\ pc' = [pc EXCEPT ![p] = Rest(p)]
    /\ UNCHANGED << users, mu, now, req, mcall, rop, rv, out, lin, linret,
                    sent, ncalls, fin, fout >>

\* return m.repo.UpdatePreferences(...) / m.repo.IncrementBooksSent(...)
MgrRet(p) ==
    /\ Top(p) = "mgr_ret"
    /\ mv' = [mv EXCEPT ![p].err = rv[p].err]
    /\ pc' = [pc EXCEPT ![p] = Rest(p)]
    /\ UNCHANGED << users, mu, now, req, mcall, rop, rv, out, lin, linret,
                    sent, ncalls, fin, fout >>

----------------------------------------------------------------------------
(* Clients calling the Manager *)

CallManager(p, c) ==
    /\ Idle(p)
    /\ ncalls' = ncalls + 1
    /\ req' = [req EXCEPT ![p] = [NoReq EXCEPT !.kind = c.fn, !.id = c.id,
                                                !.had = c.id \in DOMAIN users]]
    /\ mcall' = [mcall EXCEPT ![p] = c]
    /\ LET e == Enter(c, <<"done">>, NoRet)
       IN  /\ pc' = [pc EXCEPT ![p] = e.pc]
           /\ rop' = [rop EXCEPT ![p] = e.rop]
           /\ mv' = [mv EXCEPT ![p] = e.mv]
    /\ out' = [out EXCEPT ![p] = << >>]
    /\ UNCHANGED << users, mu, now, rv, lin, linret, sent, fin, fout >>

CallGetOrCreateUser(p) ==
    \E i \in Senders, code \in {CodeRuRU, CodeEnUS} :
        CallManager(p, [NoCall EXCEPT !.fn = "GetOrCreateUser", !.id = i,
                                      !.username = From(i).UserName,
                                      !.firstName = From(i).FirstName,
                                      !.lastName = From(i).LastName,
                                      !.langCode = code])

CallSetKindleEmail(p) ==
    \E i \in Senders, e \in {EmailA, EmailGmail} :
        CallManager(p, [NoCall EXCEPT !.fn = "SetKindleEmail", !.id = i, !.email = e])

CallSetLanguage(p) ==
    \E i \in Senders, l \in {LangRu, LangFr} :
        CallManager(p, [NoCall EXCEPT !.fn = "SetLanguage", !.id = i, !.language = l])

CallRecordBookSent(p) ==
    \E i \in Senders :
        CallManager(p, [NoCall EXCEPT !.fn = "RecordBookSent", !.id = i])

----------------------------------------------------------------------------
(* internal/bot/handler.go: Handler *)

LangPrefix == <<"l","a","n","g","_">>
BookPrefix == <<"b","o","o","k","_">>
NilArg == <<"<","n","i","l",">">>
NotSet == <<"n","o","t","_","s","e","t">>
English == <<"E","n","g","l","i","s","h">>
Russkij == <<"R","u","s","s","k","i","j">>
DigitStr(n) == <<"0","1","2","3","4","5","6","7","8","9">>[n + 1]

\* one outbound call on the bot API: h.bot.Send or h.bot.Request of the text
\* h.i18n.T(lang, key, args...)
Reply(via, lang, key, args) == [via |-> via, lang |-> lang, key |-> key, args |-> args]

\* h.sendMessage(chatID, language, key, args...)
SendMessage(lang, key, args) == Reply("Send", lang, key, args)

\* a faulty variant of HandleStart: the setup notices are sent to everybody
HandleStartAlwaysSetup(user) ==
    << Reply("Send", user.Language, "welcome", <<user.FirstName>>),
       Reply("Send", user.Language, "whitelist_instructions", << >>),
       Reply("Send", user.Language, "kindle_email_prompt", << >>) >>

HandleStart(user) ==
    << Reply("Send", user.Language, "welcome", <<user.FirstName>>) >> \o
    ( IF ~HasKindleEmail(user)
      THEN << Reply("Send", user.Language, "whitelist_instructions", << >>),
              Reply("Send", user.Language, "kindle_email_prompt", << >>) >>
      ELSE << Reply("Send", user.Language, "search_prompt", << >>) >> )

HandleHelp(user) == << SendMessage(user.Language, "help_message", <<NilArg>>) >>

\* /kindle without arguments
HandleKindleShow(user) ==
    IF HasKindleEmail(user)
    THEN << SendMessage(user.Language, "kindle_email_current", <<user.KindleEmail>>) >>
    ELSE << SendMessage(user.Language, "kindle_email_prompt", <<NilArg>>) >>

HandleLanguage(user) == << Reply("Send", user.Language, "language_prompt", << >>) >>

HandleWhitelist(user) ==
    << Reply("Send", user.Language, "whitelist_instructions", << >>) >>

HandleSettings(user) ==
    LET kindleEmail == IF user.KindleEmail = EmptyStr THEN NotSet ELSE user.KindleEmail
        language == IF user.Language = LangEn THEN English
                    ELSE IF user.Language = LangRu THEN Russkij
                    ELSE user.Language
    IN  << SendMessage(user.Language, "settings_display",
                       <<kindleEmail, language, <<DigitStr(user.BooksSent)>> >>) >>

HandleCancel(user) == << SendMessage(user.Language, "operation_cancelled", <<NilArg>>) >>

\* the replies of the commands that call nothing but the bot API
CommandReplies(cmd, user) ==
    CASE cmd = "start" -> HandleStart(user)
      [] cmd = "help" -> HandleHelp(user)
      [] cmd = "kindle" -> HandleKindleShow(user)
      [] cmd = "language" -> HandleLanguage(user)
      [] cmd = "whitelist" -> HandleWhitelist(user)
      [] cmd = "settings" -> HandleSettings(user)
      [] cmd = "cancel" -> HandleCancel(user)
      [] OTHER -> << SendMessage(user.Language, "unknown_command", <<NilArg>>) >>

\* a faulty variant of EmailSetReplies: the whitelist reminder is left out
EmailSetRepliesNoReminder(user, email) ==
    << Reply("Send", user.Language, "kindle_email_set", <<email>>) >>

\* the confirmation and the whitelist reminder after the email was set
EmailSetReplies(user, email) ==
    << Reply("Send", user.Language, "kindle_email_set", <<email>>),
       SendMessage(user.Language, "whitelist_reminder", <<NilArg>>) >>

\* the replies of handleKindle once SetKindleEmail has returned err
KindleSetReplies(user, err, email) ==
    IF err = ErrInvalidEmail
    THEN << SendMessage(user.Language, "kindle_email_invalid", <<NilArg>>) >>
    ELSE IF err # ErrNil THEN << >>
    ELSE EmailSetReplies(user, email)

\* a faulty variant of SearchSetReplies: a refused address is answered with
\* the email-required message
SearchSetRepliesRequired(user, err, email) ==
    IF err # ErrNil
    THEN << SendMessage(user.Language, "kindle_email_required", <<NilArg>>) >>
    ELSE EmailSetReplies(user, email)

\* the replies of handleSearchQuery once SetKindleEmail has returned err
SearchSetReplies(user, err, email) ==
    IF err # ErrNil
    THEN << SendMessage(user.Language, "kindle_email_invalid", <<NilArg>>) >>
    ELSE EmailSetReplies(user, email)

\* handleMessage after GetOrCreateUser returned: handleCommand for a command,
\* handleSearchQuery otherwise, up to the first Manager call.
HmDispatch(p) ==
    /\ Top(p) = "hm_dispatch"
    /\ LET user == mv[p].user
           m == req[p]
           query == TrimSpace(m.text)
           setEmail(email, k) ==
               LET c == [NoCall EXCEPT !.fn = "SetKindleEmail", !.id = user.TelegramID,
                                       !.email = email]
                   e == Enter(c, <<k>> \o Rest(p), mv[p])
               IN  /\ mcall' = [mcall EXCEPT ![p] = c]
                   /\ pc' = [pc EXCEPT ![p] = e.pc]
                   /\ rop' = [rop EXCEPT ![p] = e.rop]
                   /\ mv' = [mv EXCEPT ![p] = e.mv]
                   /\ out' = out
           reply(rs) ==
               /\ out' = [out EXCEPT ![p] = @ \o rs]
               /\ pc' = [pc EXCEPT ![p] = Rest(p)]
               /\ UNCHANGED << mcall, rop, mv >>
       IN  IF mv[p].err # ErrNil THEN reply(<< >>)
           ELSE IF m.cmd # ""
           THEN IF m.cmd = "kindle" /\ m.text # EmptyStr
                THEN setEmail(TrimSpace(m.text), "hk_set")
                ELSE reply(CommandReplies(m.cmd, user))
           ELSE IF ~HasKindleEmail(user)
                THEN IF Contains(query, KindleSuffix)
                     THEN setEmail(query, "hs_set")
                     ELSE reply(<< SendMessage(user.Language, "kindle_email_required",
                                               <<NilArg>>) >>)
                ELSE reply(<< Reply("Send", user.Language, "searching", <<query>>),
                              SendMessage(user.Language, "search_not_implemented",
                                          <<NilArg>>) >>)
    /\ UNCHANGED << users, mu, now, req, rv, lin, linret, sent, ncalls, fin, fout >>

\* handleKindle after SetKindleEmail returned
HkSet(p) ==
    /\ Top(p) = "hk_set"
    /\ out' = [out EXCEPT ![p] = @ \o KindleSetReplies(mv[p].user, mv[p].err,
                                                        mcall[p].email)]
    /\ pc' = [pc EXCEPT ![p] = Rest(p)]
    /\ UNCHANGED << users, mu, now, req, mcall, rop, rv, mv, lin, linret, sent,
                    ncalls, fin, fout >>

\* handleSearchQuery after SetKindleEmail returned
HsSet(p) ==
    /\ Top(p) = "hs_set"
    /\ out' = [out EXCEPT ![p] = @ \o SearchSetReplies(mv[p].user, mv[p].err,
                                                        mcall[p].email)]
    /\ pc' = [pc EXCEPT ![p] = Rest(p)]
    /\ UNCHANGED << users, mu, now, req, mcall, rop, rv, mv, lin, linret, sent,
                    ncalls, fin, fout >>

\* the callback answer to a book_ click
BookChoiceReplies(user) ==
    << Reply("Request", user.Language, "feature_coming_soon", << >>) >>

\* the callback answer to a click with other data: tgbotapi.NewCallback(query.ID, "")
UnknownChoiceReplies(user) == << Reply("Request", EmptyStr, "", << >>) >>

\* handleCallbackQuery after GetOrCreateUser returned
CbDispatch(p) ==
    /\ Top(p) = "cb_dispatch"
    /\ LET user == mv[p].user
           data == req[p].text
       IN  IF mv[p].err # ErrNil
           THEN /\ pc' = [pc EXCEPT ![p] = Rest(p)]
                /\ UNCHANGED << mcall, rop, mv, out >>
           ELSE IF HasPrefix(data, LangPrefix)
           THEN LET c == [NoCall EXCEPT !.fn = "SetLanguage", !.id = user.TelegramID,
                                        !.language = TrimPrefix(data, LangPrefix)]
                    e == Enter(c, <<"cb_lang">> \o Rest(p), mv[p])
                IN  /\ mcall' = [mcall EXCEPT ![p] = c]
                    /\ pc' = [pc EXCEPT ![p] = e.pc]
                    /\ rop' = [rop EXCEPT ![p] = e.rop]
                    /\ mv' = [mv EXCEPT ![p] = e.mv]
                    /\ out' = out
           ELSE /\ out' = [out EXCEPT ![p] = @ \o
                            ( IF HasPrefix(data, BookPrefix)
                              THEN BookChoiceReplies(user)
                              ELSE UnknownChoiceReplies(user) )]
                /\ pc' = [pc EXCEPT ![p] = Rest(p)]
                /\ UNCHANGED << mcall, rop, mv >>
    /\ UNCHANGED << users, mu, now, req, rv, lin, linret, sent, ncalls, fin, fout >>

\* a faulty variant of LanguageChangedReplies: the language of the profile
\* fetched at the start is used
LanguageChangedRepliesOld(user, lang) ==
    << Reply("Request", user.Language, "language_changed", << >>),
       Reply("Send", user.Language, "language_changed", << >>) >>

\* the callback answer and the edited message after SetLanguage(lang)
LanguageChangedReplies(user, lang) ==
    << Reply("Request", lang, "language_changed", << >>),
       Reply("Send", lang, "language_changed", << >>) >>

\* the language selection after SetLanguage returned
CbLang(p) ==
    /\ Top(p) = "cb_lang"
    /\ out' = [out EXCEPT ![p] = @ \o
                 ( IF mv[p].err # ErrNil THEN << >>
                   ELSE LanguageChangedReplies(mv[p].user, mcall[p].language) )]
    /\ pc' = [pc EXCEPT ![p] = Rest(p)]
    /\ UNCHANGED << users, mu, now, req, mcall, rop, rv, mv, lin, linret, sent,
                    ncalls, fin, fout >>

----------------------------------------------------------------------------
(* Updates delivered to the Handler *)

SpacedEmailA == <<" ">> \o EmailA \o <<" ">>
TextDune == <<"D","u","n","e">>
TextBadEmail == EmailB \o <<"!">>
DataLangRu == LangPrefix \o LangRu
DataLangFr == LangPrefix \o LangFr
DataLangEn == LangPrefix \o LangEn
DataBook == BookPrefix \o <<"1">>
DataOther == <<"x">>

\* HandleUpdate: both handlers start with GetOrCreateUser, passing
\* From.FirstName, From.LastName and From.UserName for the parameters
\* username, firstName and lastName
HandleUpdate(p, kind, i, cmd, text) ==
    /\ Idle(p)
    /\ ncalls' = ncalls + 1
    /\ req' = [req EXCEPT ![p] = [kind |-> kind, id |-> i, cmd |-> cmd, text |-> text,
                                  had |-> i \in DOMAIN users]]
    /\ LET c == [NoCall EXCEPT !.fn = "GetOrCreateUser", !.id = From(i).ID,
                               !.username = From(i).FirstName,
                               !.firstName = From(i).LastName,
                               !.lastName = From(i).UserName,
                               !.langCode = From(i).LanguageCode]
           k == IF kind = "Message" THEN <<"hm_dispatch", "done">>
                ELSE <<"cb_dispatch", "done">>
           e == Enter(c, k, NoRet)
       IN  /\ mcall' = [mcall EXCEPT ![p] = c]
           /\ pc' = [pc EXCEPT ![p] = e.pc]
           /\ rop' = [rop EXCEPT ![p] = e.rop]
           /\ mv' = [mv EXCEPT ![p] = e.mv]
    /\ out' = [out EXCEPT ![p] = << >>]
    /\ UNCHANGED << users, mu, now, rv, lin, linret, sent, fin, fout >>

Commands == {"start", "help", "kindle", "language", "whitelist", "settings",
             "cancel", "bogus"}

\* a command without arguments
RecvCommand(p) ==
    \E i \in Senders, cmd \in Commands :
        HandleUpdate(p, "Message", i, cmd, EmptyStr)

\* /kindle with an argument
RecvKindle(p) ==
    \E i \in Senders, a \in {SpacedEmailA, EmailGmail} :
        HandleUpdate(p, "Message", i, "kindle", a)

\* text that is not a command
RecvText(p) ==
    \E i \in Senders, t \in {TextDune, EmailB, TextBadEmail} :
        HandleUpdate(p, "Message", i, "", t)

\* a click on an inline keyboard button
RecvCallback(p) ==
    \E i \in Senders, d \in {DataLangRu, DataLangEn, DataLangFr, DataBook, DataOther} :
        HandleUpdate(p, "Callback", i, "", d)

----------------------------------------------------------------------------
(* Initial state: NewMemoryRepository(), all workers idle *)

Init ==
    /\ users = NewMemoryRepository
    /\ mu = [w |-> 0, r |-> {}]
    /\ now = 1
    /\ pc = [p \in Procs |-> <<"done">>]
    /\ req = [p \in Procs |-> NoReq]
    /\ mcall = [p \in Procs |-> NoCall]
    /\ rop = [p \in Procs |-> NoOp]
    /\ rv = [p \in Procs |-> NoRes]
    /\ mv = [p \in Procs |-> NoRet]
    /\ out = [p \in Procs |-> << >>]
    /\ lin = NewMemoryRepository
    /\ linret = [p \in Procs |-> NoRet]
    /\ sent = [i \in Ids |-> 0]
    /\ ncalls = 0
    /\ fin = EmptyStr
    /\ fout = "idle"

----------------------------------------------------------------------------
(* ValidateKindleEmail applied to candidate addresses *)

\* strings over the alphabet `chars` of length at most n
RECURSIVE StringsUpTo(_, _)
StringsUpTo(chars, n) ==
    IF n = 0 THEN {EmptyStr}
    ELSE LET shorter == StringsUpTo(chars, n - 1)
         IN  shorter \cup {<<c>> \o t : c \in chars, t \in shorter}

Tails == {KindleSuffix, GmailSuffix, UpperSuffix, MixedSuffix, NoAtSuffix,
          ShortSuffix, TrailSuffix, EmptyStr}

EmailCandidates ==
    {l \o t : l \in StringsUpTo({"u", " ", "@"}, MaxLocal), t \in Tails}

InitValidate ==
    /\ users = NewMemoryRepository
    /\ mu = [w |-> 0, r |-> {}]
    /\ now = 1
    /\ pc = [p \in Procs |-> <<"done">>]
    /\ req = [p \in Procs |-> NoReq]
    /\ mcall = [p \in Procs |-> NoCall]
    /\ rop = [p \in Procs |-> NoOp]
    /\ rv = [p \in Procs |-> NoRes]
    /\ mv = [p \in Procs |-> NoRet]
    /\ out = [p \in Procs |-> << >>]
    /\ lin = NewMemoryRepository
    /\ linret = [p \in Procs |-> NoRet]
    /\ sent = [i \in Ids |-> 0]
    /\ ncalls = 0
    /\ fin \in EmailCandidates
    /\ fout = "pending"

EvalValidateKindleEmail ==
    /\ fout = "pending"
    /\ fout' = ValidateKindleEmail(fin)
    /\ UNCHANGED << users, mu, now, pc, req, mcall, rop, rv, mv, out, lin, linret,
                    sent, ncalls, fin >>

SpecValidate == InitValidate /\ [][EvalValidateKindleEmail]_vars

----------------------------------------------------------------------------
(* internal/i18n/i18n.go: DetectLanguage, and the language GetOrCreateUser
   gives a new profile, applied to locale hints *)

UpperLetters == <<"A","B","C","D","E","F","G","H","I","J","K","L","M",
                  "N","O","P","Q","R","S","T","U","V","W","X","Y","Z">>
LowerLetters == <<"a","b","c","d","e","f","g","h","i","j","k","l","m",
                  "n","o","p","q","r","s","t","u","v","w","x","y","z">>

\* strings.ToLower on ASCII
ToLower(s) ==
    [k \in 1..Len(s) |->
        IF \E j \in 1..26 : UpperLetters[j] = s[k]
        THEN LowerLetters[CHOOSE j \in 1..26 : UpperLetters[j] = s[k]]
        ELSE s[k]]

\* strings.Index(s, c) for a one-character c: 0-based, -1 when absent
Index(s, c) ==
    IF \E k \in 1..Len(s) : s[k] = c
    THEN (CHOOSE k \in 1..Len(s) : s[k] = c /\ \A j \in 1..(k - 1) : s[j] # c) - 1
    ELSE -1

\* a faulty variant of DetectLanguage: the primary subtag is returned unchecked
DetectLanguageSubtag(telegramLangCode) ==
    LET lower == ToLower(telegramLangCode)
        idx == Index(lower, "-")
    IN  IF idx # -1 THEN SliceTo(lower, idx) ELSE lower

DetectLanguage(telegramLangCode) ==
    LET lower == ToLower(telegramLangCode)
        idx == Index(lower, "-")
        lang == IF idx # -1 THEN SliceTo(lower, idx) ELSE lower
    IN  IF lang \in {LangEn, LangRu} THEN lang ELSE LangEn

HintChars == {"r", "u", "R", "U", "e", "n", "x", "-"}
HintTails == {EmptyStr, <<"-","R","U">>, <<"-","U","S">>, <<"s">>}

Hints ==
    {h \o t : h \in StringsUpTo(HintChars, MaxHint), t \in HintTails} \cup {LangFr}

\* nothing evaluated yet
NoLang == [created |-> EmptyStr, detected |-> EmptyStr]

InitDetect ==
    /\ users = NewMemoryRepository
    /\ mu = [w |-> 0, r |-> {}]
    /\ now = 1
    /\ pc = [p \in Procs |-> <<"done">>]
    /\ req = [p \in Procs |-> NoReq]
    /\ mcall = [p \in Procs |-> NoCall]
    /\ rop = [p \in Procs |-> NoOp]
    /\ rv = [p \in Procs |-> NoRes]
    /\ mv = [p \in Procs |-> NoRet]
    /\ out = [p \in Procs |-> << >>]
    /\ lin = NewMemoryRepository
    /\ linret = [p \in Procs |-> NoRet]
    /\ sent = [i \in Ids |-> 0]
    /\ ncalls = 0
    /\ fin \in Hints
    /\ fout = NoLang

\* the language of the profile GetOrCreateUser builds for hint fin, next to
\* what DetectLanguage makes of the same hint
EvalDetectLanguage ==
    /\ fout = NoLang
    /\ fout' = [created |-> NewUser([NoCall EXCEPT !.langCode = fin], now).Language,
                detected |-> DetectLanguage(fin)]
    /\ UNCHANGED << users, mu, now, pc, req, mcall, rop, rv, mv, out, lin, linret,
                    sent, ncalls, fin >>

SpecDetect == InitDetect /\ [][EvalDetectLanguage]_vars

----------------------------------------------------------------------------
(* internal/i18n/i18n.go: I18n.T *)

\* the value of a function f at x together with the `ok` of a Go map lookup;
\* a nil or missing inner map yields the zero value
MapGet(f, x) ==
    IF x \in DOMAIN f THEN [v |-> f[x], ok |-> TRUE] ELSE [v |-> << >>, ok |-> FALSE]

\* how fmt renders operand a for verb c: operands are strings, or nil
FmtOperand(c, a) ==
    IF a = NilArg
    THEN IF c = "v" THEN NilArg ELSE <<"%", "!", c, "(">> \o NilArg \o <<")">>
    ELSE IF c = "d"
         THEN <<"%","!","d","(","s","t","r","i","n","g","=">> \o a \o <<")">>
         ELSE a

RECURSIVE FmtExtra(_)
FmtExtra(args) ==
    IF args = << >> THEN << >>
    ELSE ( IF Head(args) = NilArg THEN NilArg
           ELSE <<"s","t","r","i","n","g","=">> \o Head(args) ) \o
         ( IF Tail(args) = << >> THEN << >> ELSE <<",", " ">> \o FmtExtra(Tail(args)) )

\* fmt.Sprintf(template, args...) for the verbs %s, %d, %v and %%
RECURSIVE Sprintf(_, _)
Sprintf(template, args) ==
    IF template = << >>
    THEN IF args = << >> THEN << >>
         ELSE <<"%","!","(","E","X","T","R","A"," ">> \o FmtExtra(args) \o <<")">>
    ELSE IF Head(template) # "%"
    THEN <<Head(template)>> \o Sprintf(Tail(template), args)
    ELSE IF Len(template) = 1
    THEN <<"%","!","(","N","O","V","E","R","B",")">> \o Sprintf(<< >>, args)
    ELSE LET c == template[2]
             rest == SliceFrom(template, 2)
         IN  IF c = "%" THEN <<"%">> \o Sprintf(rest, args)
             ELSE IF args = << >>
             THEN <<"%", "!", c, "(","M","I","S","S","I","N","G",")">> \o
                  Sprintf(rest, args)
             ELSE FmtOperand(c, Head(args)) \o Sprintf(rest, Tail(args))

\* a faulty variant of T: the default language is not consulted
TNoFallback(i, lang, key, args) ==
    LET own == MapGet(MapGet(i.translations, lang).v, key)
    IN  [ text |-> IF own.ok
                   THEN IF Len(args) > 0 THEN Sprintf(own.v, args) ELSE own.v
                   ELSE key,
          translations |-> i.translations ]

\* i.T(lang, key, args...) on the instance i: the text returned and the tables
\* afterwards
T(i, lang, key, args) ==
    LET own == MapGet(MapGet(i.translations, lang).v, key)
        def == MapGet(MapGet(i.translations, i.defaultLang).v, key)
    IN  [ text |-> IF own.ok
                   THEN IF Len(args) > 0 THEN Sprintf(own.v, args) ELSE own.v
                   ELSE IF def.ok
                   THEN IF Len(args) > 0 THEN Sprintf(def.v, args) ELSE def.v
                   ELSE key,
          translations |-> i.translations ]

KeySimple == <<"s","i","m","p","l","e">>
KeyWithParam == <<"w","i","t","h","_","p","a","r","a","m">>
KeyMissingInRu == <<"m","i","s","s","i","n","g","_","i","n","_","r","u">>
KeyOnlyInRu == <<"o","n","l","y","_","i","n","_","r","u">>
KeyNonexistent == <<"n","o","n","e","x","i","s","t","e","n","t">>

EnTable ==
    (KeySimple :> <<"S","i","m","p","l","e">>) @@
    (KeyWithParam :> <<"H","e","l","l","o",","," ","%","s","!">>) @@
    (KeyMissingInRu :> <<"O","n","l","y"," ","E","n">>)

RuTable ==
    (KeySimple :> <<"P","r","o","s","t","o","j">>) @@
    (KeyWithParam :> <<"P","r","i","v","e","t",","," ","%","s","!">>) @@
    (KeyOnlyInRu :> <<"T","o","l","k","o"," ","R","u">>)

\* the tables after loading en.json and ru.json, en.json only, or nothing
Tables == { (LangEn :> EnTable) @@ (LangRu :> RuTable), (LangEn :> EnTable), << >> }

TInputs ==
    [ i : [translations : Tables, defaultLang : {LangEn, LangRu}],
      lang : {LangEn, LangRu, LangFr, EmptyStr},
      key : {KeySimple, KeyWithParam, KeyMissingInRu, KeyOnlyInRu, KeyNonexistent,
             EmptyStr},
      args : {<< >>, << <<"J","o","h","n">> >>, <<NilArg>>} ]

\* nothing evaluated yet
NoText == [text |-> <<"?">>, translations |-> << >>, done |-> FALSE]

InitT ==
    /\ users = NewMemoryRepository
    /\ mu = [w |-> 0, r |-> {}]
    /\ now = 1
    /\ pc = [p \in Procs |-> <<"done">>]
    /\ req = [p \in Procs |-> NoReq]
    /\ mcall = [p \in Procs |-> NoCall]
    /\ rop = [p \in Procs |-> NoOp]
    /\ rv = [p \in Procs |-> NoRes]
    /\ mv = [p \in Procs |-> NoRet]
    /\ out = [p \in Procs |-> << >>]
    /\ lin = NewMemoryRepository
    /\ linret = [p \in Procs |-> NoRet]
    /\ sent = [i \in Ids |-> 0]
    /\ ncalls = 0
    /\ fin \in TInputs
    /\ fout = NoText

EvalT ==
    /\ ~fout.done
    /\ LET r == T(fin.i, fin.lang, fin.key, fin.args)
       IN  fout' = [text |-> r.text, translations |-> r.translations, done |-> TRUE]
    /\ UNCHANGED << users, mu, now, pc, req, mcall, rop, rv, mv, out, lin, linret,
                    sent, ncalls, fin >>

SpecT == InitT /\ [][EvalT]_vars

\* the en.json of the Handler's test, by key
HandlerEnTable ==
    ("welcome" :> <<"W","e","l","c","o","m","e",","," ","%","s","!">>) @@
    ("help_message" :> <<"H","e","l","p"," ","t","e","x","t">>) @@
    ("kindle_email_prompt" :> <<"S","e","n","d"," ","y","o","u","r"," ","K","i","n","d","l","e"," ","e","m","a","i","l">>) @@
    ("kindle_email_set" :> <<"E","m","a","i","l"," ","s","e","t"," ","t","o"," ","%","s">>) @@
    ("kindle_email_invalid" :> <<"I","n","v","a","l","i","d"," ","e","m","a","i","l">>) @@
    ("kindle_email_current" :> <<"C","u","r","r","e","n","t"," ","e","m","a","i","l",":"," ","%","s">>) @@
    ("whitelist_instructions" :> <<"W","h","i","t","e","l","i","s","t"," ","i","n","s","t","r","u","c","t","i","o","n","s">>) @@
    ("whitelist_reminder" :> <<"R","e","m","e","m","b","e","r"," ","t","o"," ","w","h","i","t","e","l","i","s","t">>) @@
    ("language_prompt" :> <<"S","e","l","e","c","t"," ","l","a","n","g","u","a","g","e">>) @@
    ("language_changed" :> <<"L","a","n","g","u","a","g","e"," ","c","h","a","n","g","e","d">>) @@
    ("settings_display" :> <<"E","m","a","i","l",":"," ","%","s",","," ","L","a","n","g","u","a","g","e",":"," ","%","s",","," ","B","o","o","k","s",":"," ","%","d">>) @@
    ("operation_cancelled" :> <<"C","a","n","c","e","l","l","e","d">>) @@
    ("unknown_command" :> <<"U","n","k","n","o","w","n"," ","c","o","m","m","a","n","d">>) @@
    ("error_occurred" :> <<"E","r","r","o","r"," ","o","c","c","u","r","r","e","d">>) @@
    ("kindle_email_required" :> <<"E","m","a","i","l"," ","r","e","q","u","i","r","e","d">>) @@
    ("searching" :> <<"S","e","a","r","c","h","i","n","g"," ","f","o","r"," ","%","s">>) @@
    ("search_not_implemented" :> <<"C","o","m","i","n","g"," ","s","o","o","n">>) @@
    ("search_prompt" :> <<"T","y","p","e"," ","t","o"," ","s","e","a","r","c","h">>) @@
    ("feature_coming_soon" :> <<"C","o","m","i","n","g"," ","s","o","o","n">>) @@
    ("not_set" :> <<"n","o","t"," ","s","e","t">>)

\* i18n.NewI18n(tmpDir, "en") over that file
HandlerI18n == [translations |-> (LangEn :> HandlerEnTable), defaultLang |-> LangEn]

----------------------------------------------------------------------------
(* internal/i18n/i18n.go: NewI18n, and its use at startup in cmd/bot/main.go *)

MaxServed == 2

ErrNoDir == "directory does not exist"
ErrRead == "failed to read file"
ErrParse == "failed to parse JSON"

\* what os.ReadFile and json.Unmarshal make of a file: a JSON object of
\* strings, something else, or a file that cannot be read
FileKinds == {"json", "malformed", "unreadable"}

\* the names filepath.Glob can return, in the order it returns them
LocaleNames == <<LangEn, LangFr, LangRu>>

\* a locale directory: whether it exists, and its *.json files by language
Dirs ==
    { [exists |-> FALSE, files |-> << >>] } \cup
    [ exists : {TRUE},
      files : UNION { [S -> FileKinds] : S \in SUBSET {LangEn, LangFr, LangRu} } ]

\* filepath.Glob(filepath.Join(dir, "*.json")), languages for file names
Glob(dir) == SelectSeq(LocaleNames, LAMBDA l : l \in DOMAIN dir.files)

\* the object a well-formed file of language lang holds
FileTable(lang) == IF lang = LangRu THEN RuTable ELSE EnTable

\* a faulty variant of LoadLanguage: a file that does not parse is skipped
LoadLanguageSkip(tr, lang, kind) ==
    IF kind = "unreadable" THEN [translations |-> tr, err |-> ErrRead]
    ELSE IF kind = "malformed" THEN [translations |-> tr, err |-> ErrNil]
    ELSE [translations |-> MapPut(tr, lang, FileTable(lang)), err |-> ErrNil]

\* LoadLanguage(lang, path) on the tables tr
LoadLanguage(tr, lang, kind) ==
    IF kind = "unreadable" THEN [translations |-> tr, err |-> ErrRead]
    ELSE IF kind = "malformed" THEN [translations |-> tr, err |-> ErrParse]
    ELSE [translations |-> MapPut(tr, lang, FileTable(lang)), err |-> ErrNil]

\* before NewI18n: inst says whether NewI18n returned an instance, served
\* counts the updates handed to the Handler
NoLoad == [phase |-> "new", pos |-> 0, translations |-> << >>, err |-> ErrNil,
           inst |-> FALSE, served |-> 0]

InitLoad ==
    /\ users = NewMemoryRepository
    /\ mu = [w |-> 0, r |-> {}]
    /\ now = 1
    /\ pc = [p \in Procs |-> <<"done">>]
    /\ req = [p \in Procs |-> NoReq]
    /\ mcall = [p \in Procs |-> NoCall]
    /\ rop = [p \in Procs |-> NoOp]
    /\ rv = [p \in Procs |-> NoRes]
    /\ mv = [p \in Procs |-> NoRet]
    /\ out = [p \in Procs |-> << >>]
    /\ lin = NewMemoryRepository
    /\ linret = [p \in Procs |-> NoRet]
    /\ sent = [i \in Ids |-> 0]
    /\ ncalls = 0
    /\ fin \in Dirs
    /\ fout = NoLoad

\* NewI18n: New, then LoadTranslations up to the os.Stat check
LoadTranslationsStat ==
    /\ fout.phase = "new"
    /\ fout' = IF ~fin.exists
               THEN [fout EXCEPT !.phase = "returned", !.err = ErrNoDir]
               ELSE [fout EXCEPT !.phase = "loading", !.pos = 1]
    /\ UNCHANGED << users, mu, now, pc, req, mcall, rop, rv, mv, out, lin, linret,
                    sent, ncalls, fin >>

\* one round of the loop over the files; an error ends NewI18n with nil, err
LoadTranslationsFile ==
    /\ fout.phase = "loading" /\ fout.pos <= Len(Glob(fin))
    /\ LET lang == Glob(fin)[fout.pos]
           r == LoadLanguage(fout.translations, lang, fin.files[lang])
       IN  fout' = IF r.err # ErrNil
                   THEN [fout EXCEPT !.phase = "returned", !.err = r.err]
                   ELSE [fout EXCEPT !.translations = r.translations, !.pos = @ + 1]
    /\ UNCHANGED << users, mu, now, pc, req, mcall, rop, rv, mv, out, lin, linret,
                    sent, ncalls, fin >>

\* the loop is over: LoadTranslations returns nil, NewI18n returns i18n, nil
LoadTranslationsEnd ==
    /\ fout.phase = "loading" /\ fout.pos > Len(Glob(fin))
    /\ fout' = [fout EXCEPT !.phase = "returned", !.inst = TRUE]
    /\ UNCHANGED << users, mu, now, pc, req, mcall, rop, rv, mv, out, lin, linret,
                    sent, ncalls, fin >>

\* main: log.Fatalf on an error of NewI18n, otherwise on to the update loop
MainI18n ==
    /\ fout.phase = "returned"
    /\ fout' = [fout EXCEPT !.phase = IF fout.err # ErrNil THEN "aborted"
                                      ELSE "serving"]
    /\ UNCHANGED << users, mu, now, pc, req, mcall, rop, rv, mv, out, lin, linret,
                    sent, ncalls, fin >>

\* runPollingMode / the webhook handler: an update is handed to the Handler
ServeUpdate ==
    /\ fout.phase = "serving" /\ fout.served < MaxServed
    /\ fout' = [fout EXCEPT !.served = @ + 1]
    /\ UNCHANGED << users, mu, now, pc, req, mcall, rop, rv, mv, out, lin, linret,
                    sent, ncalls, fin >>

NextLoad ==
    \/ LoadTranslationsStat
    \/ LoadTranslationsFile
    \/ LoadTranslationsEnd
    \/ MainI18n
    \/ ServeUpdate

SpecLoad == InitLoad /\ [][NextLoad]_vars

----------------------------------------------------------------------------
(* pkg/models/user.go: SearchContext *)

MaxResults == 2

\* Results, as the IDs of the books
ResultLists == { r \in StringsUpTo({"1", "2"}, MaxResults) :
                   \A k \in 1..Len(r) : r[k] = DigitStr(k) }

\* the contexts a search can have left behind
SearchContexts ==
    [ Query : {TextDune}, Results : ResultLists,
      CreatedAt : 0..MaxTime, ExpiresAt : 0..(MaxTime + 1) ]

\* no context
NilContext == [Query |-> EmptyStr, Results |-> << >>, CreatedAt |-> 0, ExpiresAt |-> 0]

\* a faulty variant of IsActive: the expiry is not looked at
IsActiveUnexpiring(sc, t) == Len(sc.Results) > 0

\* sc.IsActive() at time t: len(sc.Results) > 0 && time.Now().Before(sc.ExpiresAt)
IsActive(sc, t) == Len(sc.Results) > 0 /\ t < sc.ExpiresAt

\* what a reader of the context gets at time t
ActiveSearch(sc, t) == IF IsActive(sc, t) THEN sc ELSE NilContext

\* nothing read yet
NoRead == [active |-> FALSE, seen |-> NilContext, at |-> 0, done |-> FALSE]

InitActive ==
    /\ users = NewMemoryRepository
    /\ mu = [w |-> 0, r |-> {}]
    /\ now = 1
    /\ pc = [p \in Procs |-> <<"done">>]
    /\ req = [p \in Procs |-> NoReq]
    /\ mcall = [p \in Procs |-> NoCall]
    /\ rop = [p \in Procs |-> NoOp]
    /\ rv = [p \in Procs |-> NoRes]
    /\ mv = [p \in Procs |-> NoRet]
    /\ out = [p \in Procs |-> << >>]
    /\ lin = NewMemoryRepository
    /\ linret = [p \in Procs |-> NoRet]
    /\ sent = [i \in Ids |-> 0]
    /\ ncalls = 0
    /\ fin \in { sc \in SearchContexts : sc.CreatedAt <= 1 /\ sc.CreatedAt <= sc.ExpiresAt }
    /\ fout = NoRead

\* a reader looks at the context
ReadContext ==
    /\ fout' = [active |-> IsActive(fin, now), seen |-> ActiveSearch(fin, now),
                at |-> now, done |-> TRUE]
    /\ UNCHANGED << users, mu, now, pc, req, mcall, rop, rv, mv, out, lin, linret,
                    sent, ncalls, fin >>

NextActive == Tick \/ ReadContext

SpecActive == InitActive /\ [][NextActive]_vars

----------------------------------------------------------------------------
(* internal/config/config.go: Load *)

\* the environment after godotenv.Load: the variables Load validates or
\* defaults, "" for a variable that is unset or empty
Environments ==
    [ TELEGRAM_BOT_TOKEN : {"", "token"},
      BOT_MODE : {"", "polling", "webhook", "socket"},
      WEBHOOK_URL : {"", "https://bot"},
      DB_TYPE : {"", "memory", "postgres", "cosmos", "sqlite"},
      DB_HOST : {"", "host"}, DB_NAME : {"", "name"},
      DB_USER : {"", "user"}, DB_PASSWORD : {"", "password"},
      COSMOS_ENDPOINT : {"", "endpoint"}, COSMOS_KEY : {"", "key"},
      COSMOS_DATABASE : {"", "database"}, COSMOS_CONTAINER : {"", "container"},
      DB_PORT : {"", "6543"}, DB_SSL_MODE : {"", "disable"},
      LOG_LEVEL : {"", "debug"}, PORT : {"", "9090"} ]

ErrTokenRequired == "TELEGRAM_BOT_TOKEN is required"
ErrWebhookURL == "WEBHOOK_URL is required for webhook mode"
ErrPostgres == "postgres configuration incomplete: DB_HOST, DB_NAME, DB_USER, and DB_PASSWORD are required"
ErrCosmos == "cosmos configuration incomplete: COSMOS_ENDPOINT, COSMOS_KEY, COSMOS_DATABASE, and COSMOS_CONTAINER are required"
ErrDBType == "invalid DB_TYPE"

\* a faulty variant of getEnvOrDefault: the default is not applied
getEnvNoDefault(env, key, defaultValue) == env[key]

getEnvOrDefault(env, key, defaultValue) ==
    IF env[key] # "" THEN env[key] ELSE defaultValue

\* cfg := &Config{...}
ConfigOf(env) ==
    [ TelegramBotToken |-> env.TELEGRAM_BOT_TOKEN,
      BotMode |-> getEnvOrDefault(env, "BOT_MODE", "polling"),
      WebhookURL |-> env.WEBHOOK_URL,
      DBType |-> getEnvOrDefault(env, "DB_TYPE", "memory"),
      DBHost |-> env.DB_HOST,
      DBPort |-> getEnvOrDefault(env, "DB_PORT", "5432"),
      DBName |-> env.DB_NAME,
      DBUser |-> env.DB_USER,
      DBPassword |-> env.DB_PASSWORD,
      DBSSLMode |-> getEnvOrDefault(env, "DB_SSL_MODE", "require"),
      CosmosEndpoint |-> env.COSMOS_ENDPOINT,
      CosmosKey |-> env.COSMOS_KEY,
      CosmosDatabase |-> env.COSMOS_DATABASE,
      CosmosContainer |-> env.COSMOS_CONTAINER,
      LogLevel |-> getEnvOrDefault(env, "LOG_LEVEL", "info"),
      Port |-> getEnvOrDefault(env, "PORT", "8080") ]

\* the *Config of a failed Load
NilConfig == [ f \in DOMAIN ConfigOf(CHOOSE e \in Environments : TRUE) |-> "" ]

\* Load: (cfg, nil), or (nil, err)
Load(env) ==
    LET cfg == ConfigOf(env)
        fail(e) == [cfg |-> NilConfig, isnil |-> TRUE, err |-> e]
    IN  IF cfg.TelegramBotToken = "" THEN fail(ErrTokenRequired)
        ELSE IF cfg.BotMode = "webhook" /\ cfg.WebhookURL = "" THEN fail(ErrWebhookURL)
        ELSE IF cfg.DBType = "memory" THEN [cfg |-> cfg, isnil |-> FALSE, err |-> ErrNil]
        ELSE IF cfg.DBType = "postgres"
        THEN IF cfg.DBHost = "" \/ cfg.DBName = "" \/ cfg.DBUser = "" \/ cfg.DBPassword = ""
             THEN fail(ErrPostgres)
             ELSE [cfg |-> cfg, isnil |-> FALSE, err |-> ErrNil]
        ELSE IF cfg.DBType = "cosmos"
        THEN IF \/ cfg.CosmosEndpoint = "" \/ cfg.CosmosKey = ""
                \/ cfg.CosmosDatabase = "" \/ cfg.CosmosContainer = ""
             THEN fail(ErrCosmos)
             ELSE [cfg |-> cfg, isnil |-> FALSE, err |-> ErrNil]
        ELSE fail(ErrDBType)

\* Load has not run
NoLoaded == [cfg |-> NilConfig, isnil |-> TRUE, err |-> ErrNil, done |-> FALSE]

InitConfig ==
    /\ users = NewMemoryRepository
    /\ mu = [w |-> 0, r |-> {}]
    /\ now = 1
    /\ pc = [p \in Procs |-> <<"done">>]
    /\ req = [p \in Procs |-> NoReq]
    /\ mcall = [p \in Procs |-> NoCall]
    /\ rop = [p \in Procs |-> NoOp]
    /\ rv = [p \in Procs |-> NoRes]
    /\ mv = [p \in Procs |-> NoRet]
    /\ out = [p \in Procs |-> << >>]
    /\ lin = NewMemoryRepository
    /\ linret = [p \in Procs |-> NoRet]
    /\ sent = [i \in Ids |-> 0]
    /\ ncalls = 0
    /\ fin \in Environments
    /\ fout = NoLoaded

EvalLoad ==
    /\ ~fout.done
    /\ LET r == Load(fin)
       IN  fout' = [cfg |-> r.cfg, isnil |-> r.isnil, err |-> r.err, done |-> TRUE]
    /\ UNCHANGED << users, mu, now, pc, req, mcall, rop, rv, mv, out, lin, linret,
                    sent, ncalls, fin >>

SpecConfig == InitConfig /\ [][EvalLoad]_vars

----------------------------------------------------------------------------
(* Specifications *)

\* the repository under concurrent direct callers
NextStore ==
    \/ Tick
    \/ \E p \in Procs : RepoLock(p)
    \/ \E p \in Procs : RepoBody(p)
    \/ ncalls < MaxStoreCalls /\ \E p \in Procs : CallGetUser(p)
    \/ ncalls < MaxStoreCalls /\ \E p \in Procs : CallSaveUser(p)
    \/ ncalls < MaxStoreCalls /\ \E p \in Procs : CallUpdatePreferences(p)
    \/ ncalls < MaxStoreCalls /\ \E p \in Procs : CallIncrementBooksSent(p)
    \/ ncalls < MaxStoreCalls /\ \E p \in Procs : CallUpdateLastActive(p)

SpecStore == Init /\ [][NextStore]_vars

\* the repository with callers that write to the profiles they hold
NextCopy ==
    \/ \E p \in Procs : RepoLock(p)
    \/ \E p \in Procs : RepoBody(p)
    \/ \E p \in Procs : MutateHeld(p)
    \/ ncalls < MaxStoreCalls /\ \E p \in Procs : CallGetUser(p)
    \/ ncalls < MaxStoreCalls /\ \E p \in Procs : CallSaveUser(p)

SpecCopy == Init /\ [][NextCopy]_vars

\* the Manager under concurrent callers
NextManager ==
    \/ Tick
    \/ \E p \in Procs : RepoLock(p)
    \/ \E p \in Procs : RepoBody(p)
    \/ \E p \in Procs : GocGot(p)
    \/ \E p \in Procs : GocRet(p)
    \/ \E p \in Procs : GocSaved(p)
    \/ \E p \in Procs : MgrRet(p)
    \/ ncalls < MaxCalls /\ \E p \in Procs : CallGetOrCreateUser(p)
    \/ ncalls < MaxCalls /\ \E p \in Procs : CallSetKindleEmail(p)
    \/ ncalls < MaxCalls /\ \E p \in Procs : CallSetLanguage(p)
    \/ ncalls < MaxCalls /\ \E p \in Procs : CallRecordBookSent(p)

SpecManager == Init /\ [][NextManager]_vars

\* the Handler and the Manager under concurrent updates and calls
Next ==
    \/ Tick
    \/ \E p \in Procs : RepoLock(p)
    \/ \E p \in Procs : RepoBody(p)
    \/ \E p \in Procs : GocGot(p)
    \/ \E p \in Procs : GocRet(p)
    \/ \E p \in Procs : GocSaved(p)
    \/ \E p \in Procs : MgrRet(p)
    \/ \E p \in Procs : HmDispatch(p)
    \/ \E p \in Procs : HkSet(p)
    \/ \E p \in Procs : HsSet(p)
    \/ \E p \in Procs : CbDispatch(p)
    \/ \E p \in Procs : CbLang(p)
    \/ ncalls < MaxUpdates /\ \E p \in Procs : RecvCommand(p)
    \/ ncalls < MaxUpdates /\ \E p \in Procs : RecvKindle(p)
    \/ ncalls < MaxUpdates /\ \E p \in Procs : RecvText(p)
    \/ ncalls < MaxUpdates /\ \E p \in Procs : RecvCallback(p)
    \/ ncalls < MaxUpdates /\ \E p \in Procs : CallGetOrCreateUser(p)
    \/ ncalls < MaxUpdates /\ \E p \in Procs : CallSetKindleEmail(p)
    \/ ncalls < MaxUpdates /\ \E p \in Procs : CallSetLanguage(p)
    \/ ncalls < MaxUpdates /\ \E p \in Procs : CallRecordBookSent(p)

Spec == Init /\ [][Next]_vars

\* the Handler under concurrently delivered updates
NextRouter ==
    \/ Tick
    \/ \E p \in Procs : RepoLock(p)
    \/ \E p \in Procs : RepoBody(p)
    \/ \E p \in Procs : GocGot(p)
    \/ \E p \in Procs : GocRet(p)
    \/ \E p \in Procs : GocSaved(p)
    \/ \E p \in Procs : MgrRet(p)
    \/ \E p \in Procs : HmDispatch(p)
    \/ \E p \in Procs : HkSet(p)
    \/ \E p \in Procs : HsSet(p)
    \/ \E p \in Procs : CbDispatch(p)
    \/ \E p \in Procs : CbLang(p)
    \/ ncalls < MaxUpdates /\ \E p \in Procs : RecvCommand(p)
    \/ ncalls < MaxUpdates /\ \E p \in Procs : RecvKindle(p)
    \/ ncalls < MaxUpdates /\ \E p \in Procs : RecvText(p)
    \/ ncalls < MaxUpdates /\ \E p \in Procs : RecvCallback(p)

SpecRouter == Init /\ [][NextRouter]_vars

\* the Handler over a Repository whose operations may fail
NextFailing ==
    \/ \E p \in Procs : RepoLock(p)
    \/ \E p \in Procs : RepoBody(p)
    \/ \E p \in Procs : RepoFail(p)
    \/ \E p \in Procs : GocGot(p)
    \/ \E p \in Procs : GocRet(p)
    \/ \E p \in Procs : GocSaved(p)
    \/ \E p \in Procs : MgrRet(p)
    \/ \E p \in Procs : HmDispatch(p)
    \/ \E p \in Procs : HkSet(p)
    \/ \E p \in Procs : HsSet(p)
    \/ \E p \in Procs : CbDispatch(p)
    \/ \E p \in Procs : CbLang(p)
    \/ ncalls < MaxUpdates /\ \E p \in Procs : RecvCommand(p)
    \/ ncalls < MaxUpdates /\ \E p \in Procs : RecvKindle(p)
    \/ ncalls < MaxUpdates /\ \E p \in Procs : RecvText(p)
    \/ ncalls < MaxUpdates /\ \E p \in Procs : RecvCallback(p)

SpecFailing == Init /\ [][NextFailing]_vars

\* the next statement of the goroutine of worker p
Step(p) ==
    \/ RepoLock(p) \/ RepoBody(p)
    \/ GocGot(p) \/ GocRet(p) \/ GocSaved(p) \/ MgrRet(p)
    \/ HmDispatch(p) \/ HkSet(p) \/ HsSet(p) \/ CbDispatch(p) \/ CbLang(p)

\* Handler updates and direct repository calls, each in its own goroutine,
\* which the Go scheduler keeps running
NextBusy ==
    \/ \E p \in Procs : Step(p)
    \/ ncalls < MaxUpdates /\ \E p \in Procs : RecvCommand(p)
    \/ ncalls < MaxUpdates /\ \E p \in Procs : RecvKindle(p)
    \/ ncalls < MaxUpdates /\ \E p \in Procs : RecvText(p)
    \/ ncalls < MaxUpdates /\ \E p \in Procs : RecvCallback(p)
    \/ ncalls < MaxUpdates /\ \E p \in Procs : CallUpdatePreferences(p)
    \/ ncalls < MaxUpdates /\ \E p \in Procs : CallIncrementBooksSent(p)

SpecBusy == Init /\ [][NextBusy]_vars /\ \A p \in Procs : WF_vars(Step(p))

----------------------------------------------------------------------------
(* Properties *)

\* the step is one of worker p
StepOf(p) == pc'[p] # pc[p]

\* s ends with suf, position by position
EndsWith(s, suf) ==
    /\ Len(s) >= Len(suf)
    /\ \A k \in 1..Len(suf) : s[Len(s) - Len(suf) + k] = suf[k]

\* C1: concurrent GetOrCreateUser calls for one new identity leave one stored
\* profile and all return a profile with the same creation time.
C1_SameCreation ==
    \A p \in Procs, q \in Procs :
        ( /\ Idle(p) /\ Idle(q)
          /\ req[p].kind = "GetOrCreateUser" /\ req[q].kind = "GetOrCreateUser"
          /\ req[p].id = req[q].id )
        => /\ req[p].id \in DOMAIN users
           /\ mv[p].user.CreatedAt = mv[q].user.CreatedAt
           /\ mv[p].user.CreatedAt = users[req[p].id].CreatedAt

\* C2: the stored BooksSent of every profile is the number of successful
\* IncrementBooksSent calls for it, whatever the interleaving.
C2_CountsEverySend ==
    \A i \in DOMAIN users : users[i].BooksSent = sent[i]

\* C3: the repository operations are atomic: the store and every completed
\* operation's result are those of the same operations run one at a time, in
\* the order in which their bodies ran.
C3_Linearizable ==
    /\ users = lin
    /\ \A p \in Procs :
        Idle(p) => rv[p].err = linret[p].err /\ rv[p].user = linret[p].user

\* UpdatePreferences was called before the profile was stored and ran after
\* the SaveUser it overlapped with; it and a later increment both took effect
C3_Witness ==
    \E p \in Procs, q \in Procs :
        /\ p # q /\ Idle(p) /\ Idle(q) /\ ncalls = MaxStoreCalls
        /\ req[p].kind = "IncrementBooksSent" /\ rv[p].err = ErrNil
        /\ req[q].kind = "UpdatePreferences" /\ rv[q].err = ErrNil
        /\ req[p].id = req[q].id
        /\ ~req[q].had
        /\ users[req[p].id].BooksSent = 1
        /\ users[req[p].id].KindleEmail = rop[q].prefs.KindleEmail
        /\ rop[q].prefs.KindleEmail = EmailA

\* C9: UpdatePreferences on a stored profile overwrites KindleEmail and
\* Language only where the given field is non-empty, sets UpdatedAt to the
\* current time and leaves BooksSent, CreatedAt and LastActive alone.
C9_PartialMerge ==
    [][ \A p \in Procs :
          ( /\ StepOf(p) /\ Top(p) = "repo_body"
            /\ rop[p].op = "UpdatePreferences"
            /\ rop[p].id \in DOMAIN users )
          => LET old == users[rop[p].id]
                 new == users'[rop[p].id]
                 prefs == rop[p].prefs
             IN  /\ rv'[p].err = ErrNil
                 /\ new.KindleEmail = IF prefs.KindleEmail = EmptyStr
                                      THEN old.KindleEmail ELSE prefs.KindleEmail
                 /\ new.Language = IF prefs.Language = EmptyStr
                                   THEN old.Language ELSE prefs.Language
                 /\ new.UpdatedAt = now
                 /\ new.BooksSent = old.BooksSent
                 /\ new.CreatedAt = old.CreatedAt
                 /\ new.LastActive = old.LastActive
                 /\ \A i \in DOMAIN users \ {rop[p].id} : users'[i] = users[i]
      ]_vars

\* a language-only update has completed: the address stored before is kept
\* and UpdatedAt has moved
C9_Witness ==
    \E p \in Procs :
        /\ Idle(p) /\ req[p].kind = "UpdatePreferences" /\ rv[p].err = ErrNil
        /\ rop[p].prefs = [KindleEmail |-> EmptyStr, Language |-> LangRu]
        /\ users[req[p].id].KindleEmail = EmailB
        /\ users[req[p].id].Language = LangRu
        /\ users[req[p].id].UpdatedAt = MaxTime
        /\ users[req[p].id].UpdatedAt > 1

\* C10: GetUser, UpdatePreferences, IncrementBooksSent and UpdateLastActive
\* on an identity without a stored profile return ErrUserNotFound and leave the
\* store as it was.
C10_UnknownIdentity ==
    [][ \A p \in Procs :
          ( /\ StepOf(p) /\ Top(p) \in {"repo_lock", "repo_body"}
            /\ rop[p].op \in {"GetUser", "UpdatePreferences", "IncrementBooksSent",
                              "UpdateLastActive"}
            /\ rop[p].id \notin DOMAIN users )
          => /\ users' = users
             /\ Top(p) = "repo_body" => rv'[p].err = ErrUserNotFound
      ]_vars

\* each of the four operations has failed on an identity that is still unknown
\* while the other identity's profile is stored
C10_Witness ==
    /\ \E p \in Procs :
        /\ Idle(p) /\ req[p].kind = "UpdateLastActive"
        /\ rv[p].err = ErrUserNotFound /\ req[p].id \notin DOMAIN users
    /\ \E q \in Procs :
        /\ Idle(q) /\ req[q].kind \in {"GetUser", "UpdatePreferences",
                                       "IncrementBooksSent"}
        /\ rv[q].err = ErrUserNotFound /\ req[q].id \notin DOMAIN users
    /\ DOMAIN users # {}

\* C4: the KindleEmail of every stored profile is empty or an address that
\* ValidateKindleEmail accepts.
C4_StoredEmailValid ==
    \A i \in DOMAIN users :
        \/ users[i].KindleEmail = EmptyStr
        \/ ValidateKindleEmail(users[i].KindleEmail) = ErrNil

\* SetKindleEmail has refused a candidate for a profile that holds an address
\* set earlier
C4_Witness ==
    \E p \in Procs :
        /\ Idle(p) /\ mcall[p].fn = "SetKindleEmail"
        /\ mcall[p].email = EmailGmail /\ mv[p].err = ErrInvalidEmail
        /\ mcall[p].id \in DOMAIN users
        /\ users[mcall[p].id].KindleEmail = EmailA

\* C5: the Language of every stored profile is "en" or "ru", whatever follows
\* lang_ in the callback data of a click.
C5_StoredLanguageSupported ==
    \A i \in DOMAIN users : IsValidLanguage(users[i])

C7_SpaceRejected ==
    ( /\ fout # "pending"
      /\ \E k \in 1..Len(fin) : fin[k] = " " )
    => fout = ErrInvalidEmail

\* the update of worker p is /kindle with an argument that is not an address
\* at kindle.com
KindleInvalid(p) ==
    /\ req[p].kind = "Message" /\ req[p].cmd = "kindle" /\ req[p].text # EmptyStr
    /\ LET email == TrimSpace(req[p].text)
       IN  ~(EndsWith(email, KindleSuffix) /\ Len(email) > Len(KindleSuffix))

C11_IndependentCopy ==
    [][ \A p \in Procs :
          /\ (pc' = pc /\ rv'[p].user # rv[p].user) => users' = users
          /\ ( /\ StepOf(p) /\ Top(p) = "repo_body" /\ rop[p].op = "GetUser"
               /\ rop[p].id \in DOMAIN lin )
             => /\ rv'[p].err = ErrNil
                /\ rv'[p].user = lin[rop[p].id]
      ]_vars

\* one caller has written to the profile GetUser gave it, the other to the
\* one it passed to SaveUser; the stored profile shows neither write
C11_Witness ==
    \E p \in Procs, q \in Procs :
        /\ Idle(p) /\ Idle(q) /\ req[p].id = req[q].id
        /\ req[p].kind = "GetUser" /\ rv[p].err = ErrNil
        /\ rv[p].user.KindleEmail = EmailGmail
        /\ req[q].kind = "SaveUser" /\ rv[q].user.Language = LangFr
        /\ users[req[p].id].KindleEmail = EmailB
        /\ users[req[p].id].Language = LangEn

\* C12: SaveUser stores exactly the profile it is given, with UpdatedAt set to
\* the current time, whether or not a profile was stored for the identity, and
\* a GetUser that follows returns that profile.
C12_SaveReplaces ==
    [][ \A p \in Procs :
          /\ ( StepOf(p) /\ Top(p) = "repo_body" /\ rop[p].op = "SaveUser" )
             => /\ rv'[p].err = ErrNil
                /\ rop[p].user.TelegramID \in DOMAIN users'
                /\ users'[rop[p].user.TelegramID] =
                       [rop[p].user EXCEPT !.UpdatedAt = now]
                /\ \A i \in DOMAIN users \ {rop[p].user.TelegramID} :
                       users'[i] = users[i]
          /\ ( /\ StepOf(p) /\ Top(p) = "repo_lock" /\ rop[p].op = "GetUser"
               /\ rop[p].id \in DOMAIN users )
             => rv'[p].user = users[rop[p].id] /\ rv'[p].exists
          /\ ( /\ StepOf(p) /\ Top(p) = "repo_body" /\ rop[p].op = "GetUser"
               /\ rv[p].exists )
             => rv'[p].user = rv[p].user /\ rv'[p].err = ErrNil
      ]_vars

\* a profile that had counted a book was saved again at a later time: the
\* stored profile is the saved one and its counter is the saved 0
C12_Witness ==
    \E p \in Procs :
        /\ Idle(p) /\ req[p].kind = "SaveUser" /\ req[p].had
        /\ sent[req[p].id] = 1
        /\ users[req[p].id] = [rop[p].user EXCEPT !.UpdatedAt = now]
        /\ users[req[p].id].BooksSent = 0
        /\ now > 1

\* worker p runs GetOrCreateUser for an identity that had a profile when the
\* call was made
GocExisting(p) == req[p].kind = "GetOrCreateUser" /\ req[p].had

\* profiles u and v differ at most in LastActive
SameButActivity(u, v) == u = [v EXCEPT !.LastActive = u.LastActive]

\* C13: GetOrCreateUser for an identity that has a profile changes nothing in
\* the store but LastActive, and returns the stored profile as GetUser read it,
\* whatever names and locale hint the call carries.
C13_ExistingProfileKept ==
    /\ [] \A p \in Procs : (GocExisting(p) /\ Idle(p)) => mv[p].err = ErrNil
    /\ [][ \A p \in Procs :
             (GocExisting(p) /\ ~Idle(p) /\ StepOf(p)) =>
               /\ DOMAIN users' = DOMAIN users
               /\ \A i \in DOMAIN users : SameButActivity(users'[i], users[i])
               /\ (Top(p) = "repo_body" /\ rop[p].op = "GetUser")
                     => rv'[p].err = ErrNil /\ rv'[p].user = users[req[p].id]
               /\ Top(p) = "goc_got" => SameButActivity(mv'[p].user, rv[p].user)
               /\ Top(p) \notin {"repo_body", "goc_got"} =>
                     ( \/ Top(p) = "repo_lock" /\ rop[p].op = "GetUser"
                       \/ mv'[p].user = mv[p].user )
         ]_vars

\* a profile created with a Russian hint that has counted a book is fetched
\* with an English hint: Russian and the count come back
C13_Witness ==
    \E p \in Procs :
        /\ GocExisting(p) /\ Idle(p)
        /\ mcall[p].langCode = CodeEnUS
        /\ mv[p].user.Language = LangRu /\ mv[p].user.BooksSent = 1
        /\ mv[p].user.LastActive > mv[p].user.CreatedAt
        /\ SameButActivity(users[req[p].id], mv[p].user)

\* C14: for every locale hint the language of the profile GetOrCreateUser
\* creates is the one DetectLanguage returns for that hint.
C14_CreatedLanguageDetected ==
    fout # NoLang => fout.created = fout.detected

\* C15: DetectLanguage returns en or ru for every hint: ru for "ru" and
\* "ru-RU", en for "en" and "en-US", and en for the empty hint, for "xx" and
\* "fr", and for every hint of one character.
C15_DetectLanguage ==
    fout # NoLang =>
        /\ fout.detected \in {LangEn, LangRu}
        /\ fin \in {LangRu, CodeRuRU} => fout.detected = LangRu
        /\ fin \in {LangEn, CodeEnUS, EmptyStr, <<"x","x">>, LangFr}
              => fout.detected = LangEn
        /\ Len(fin) = 1 => fout.detected = LangEn

\* "ru-RU" has been detected as ru; the other hints listed above are
\* among the inputs
C15_Witness ==
    /\ fout # NoLang /\ fin = CodeRuRU /\ fout.detected = LangRu
    /\ {LangRu, LangEn, CodeEnUS, EmptyStr, <<"x","x">>, LangFr, <<"r">>} \subseteq Hints

\* the key has an entry in the table of language l
HasEntry(tr, l, key) == l \in DOMAIN tr /\ key \in DOMAIN tr[l]

\* an entry as T hands it out: formatted with the arguments when there are any
Rendered(template, args) ==
    IF args = << >> THEN template ELSE Sprintf(template, args)

Keys(p) == [k \in 1..Len(out[p]) |-> out[p][k].key]

\* worker p handles /start
IsStart(p) == req[p].kind = "Message" /\ req[p].cmd = "start"

EndpointLike(s) == \E k \in 1..Len(s) : EndsWith(SubSeq(s, 1, k), KindleSuffix)

\* the update of worker p is text that is neither a command nor endpoint-like
PlainText(p) ==
    /\ req[p].kind = "Message" /\ req[p].cmd = ""
    /\ ~EndpointLike(TrimSpace(req[p].text))

Acceptable(s) == EndsWith(s, KindleSuffix) /\ Len(s) > Len(KindleSuffix)

\* the update of worker p asks for a new address: /kindle with an acceptable
\* argument, or endpoint-like acceptable text while the profile the handler
\* fetched has no address
SetsAddress(p) ==
    /\ req[p].kind = "Message"
    /\ Acceptable(TrimSpace(req[p].text))
    /\ \/ req[p].cmd = "kindle"
       \/ /\ req[p].cmd = "" /\ EndpointLike(TrimSpace(req[p].text))
          /\ Top(p) \in {"hs_set", "mgr_ret", "repo_lock", "repo_body", "done"}
          /\ mcall[p].fn = "SetKindleEmail"

EndpointText(p) ==
    /\ req[p].kind = "Message" /\ req[p].cmd = ""
    /\ EndpointLike(TrimSpace(req[p].text))

\* the Manager call /kindle makes for argument a and profile u
KindleCall(u, a) ==
    [NoCall EXCEPT !.fn = "SetKindleEmail", !.id = u.TelegramID,
                   !.email = TrimSpace(a)]

\* C20: endpoint-like text from a user whose profile has no KindleEmail is
\* handled as /kindle with that text is: the same SetKindleEmail call, hence
\* the same write to the store, and the same replies, and none of the
\* replies of a search.
C20_TextAsKindleArgument ==
    /\ [] \A p \in Procs :
            ( /\ EndpointText(p) /\ mv[p].user.KindleEmail = EmptyStr
              /\ Top(p) \notin {"hm_dispatch", "goc_got", "goc_ret", "goc_saved"}
              /\ ~(Top(p) \in {"repo_lock", "repo_body"} /\ mcall[p].fn = "GetOrCreateUser") )
            => /\ mcall[p] = KindleCall(mv[p].user, req[p].text)
               /\ LET e == EnterSetKindleEmail(mcall[p], <<"hk_set", "done">>, mv[p])
                  IN  Top(p) \in {"repo_lock", "repo_body", "mgr_ret"} => rop[p] = e.rop
               /\ Top(p) = "hs_set" =>
                     SearchSetReplies(mv[p].user, mv[p].err, mcall[p].email) =
                     KindleSetReplies(mv[p].user, mv[p].err, mcall[p].email)
               /\ Idle(p) =>
                     /\ out[p] = KindleSetReplies(mv[p].user, mv[p].err,
                                                  TrimSpace(req[p].text))
                     /\ \A k \in 1..Len(out[p]) :
                           out[p][k].key \notin {"searching", "search_not_implemented",
                                                 "kindle_email_required"}
    /\ [][ \A p \in Procs :
             ( /\ EndpointText(p) /\ StepOf(p) /\ Top(p) = "repo_body"
               /\ mcall[p].fn = "SetKindleEmail" )
             => users' = UpdatePreferences(users,
                             EnterSetKindleEmail(KindleCall(mv[p].user, req[p].text),
                                                 <<"hk_set", "done">>, mv[p]).rop,
                             Lookup(users, req[p].id), now).store
         ]_vars

\* both kinds of endpoint-like text have been answered for a user without an
\* address: a refused one, and an accepted one that is now stored
C20_Witness ==
    \E p \in Procs, q \in Procs :
        /\ EndpointText(p) /\ Idle(p) /\ req[p].text = TextBadEmail
        /\ Keys(p) = <<"kindle_email_invalid">>
        /\ EndpointText(q) /\ Idle(q) /\ req[q].text = EmailB
        /\ Keys(q) = <<"kindle_email_set", "whitelist_reminder">>
        /\ users[req[q].id].KindleEmail = EmailB

\* the update of worker p is text that is no command, and the profile its
\* handler fetched has an address
QueryWithAddress(p) ==
    /\ req[p].kind = "Message" /\ req[p].cmd = ""
    /\ mv[p].err = ErrNil /\ mv[p].user.KindleEmail # EmptyStr

\* C21: text q from a user with a KindleEmail is answered first by the
\* searching acknowledgment for q, and the search collaborator is called
\* exactly once, with q.
C21_SearchForwarded ==
    \A p \in Procs :
        (QueryWithAddress(p) /\ Idle(p)) =>
            LET q == TrimSpace(req[p].text)
            IN  /\ Len(out[p]) >= 1
                /\ out[p][1] = Reply("Send", mv[p].user.Language, "searching", <<q>>)
                /\ Cardinality({k \in 1..Len(out[p]) : out[p][k].via = "Search"}) = 1
                /\ \A k \in 1..Len(out[p]) :
                      out[p][k].via = "Search" => out[p][k].args = <<q>>

\* s begins with pre, position by position
BeginsWith(s, pre) ==
    /\ Len(s) >= Len(pre)
    /\ \A k \in 1..Len(pre) : s[k] = pre[k]

\* the update of worker p is a click whose data is lang_ followed by a code
LanguageChoice(p) == req[p].kind = "Callback" /\ BeginsWith(req[p].text, LangPrefix)

\* the code after lang_ in the data of worker p's update
Chosen(p) == SubSeq(req[p].text, Len(LangPrefix) + 1, Len(req[p].text))

BookChoice(p) == req[p].kind = "Callback" /\ BeginsWith(req[p].text, BookPrefix)

\* C23: a click with data book_... that has been handled has incremented the
\* BooksSent of the user through RecordBookSent.
C23_BookChoiceCounted ==
    \A p \in Procs :
        (BookChoice(p) /\ Idle(p)) =>
            /\ mcall[p].fn = "RecordBookSent"
            /\ mv[p].err = ErrNil
            /\ sent[req[p].id] >= 1
            /\ users[req[p].id].BooksSent >= 1

\* the step leaves KindleEmail, Language and BooksSent of every stored
\* profile as they were
SamePreferences ==
    \A i \in DOMAIN users :
        /\ users'[i].KindleEmail = users[i].KindleEmail
        /\ users'[i].Language = users[i].Language
        /\ users'[i].BooksSent = users[i].BooksSent

\* the update of worker p is a click with data of neither kind
UnknownChoice(p) ==
    /\ req[p].kind = "Callback"
    /\ ~BeginsWith(req[p].text, LangPrefix) /\ ~BeginsWith(req[p].text, BookPrefix)

\* C24: a click with data of neither kind gets an empty callback answer and
\* nothing else, no Manager function but GetOrCreateUser runs, and no step of
\* handling it changes KindleEmail, Language or BooksSent of a stored profile.
C24_UnknownChoiceIgnored ==
    /\ [] \A p \in Procs :
            (UnknownChoice(p) /\ Idle(p)) =>
              /\ mv[p].err = ErrNil
              /\ mcall[p].fn = "GetOrCreateUser"
              /\ Len(out[p]) = 1
              /\ out[p][1].via = "Request" /\ out[p][1].key = ""
              /\ out[p][1].args = << >>
    /\ [][ \A p \in Procs :
             (UnknownChoice(p) /\ ~Idle(p) /\ StepOf(p)) => SamePreferences
         ]_vars

\* worker p has handled an update
Handled(p) == req[p].kind # "none" /\ Idle(p)

\* the update of worker p goes down a path with a single reply: a command
\* other than /start and /kindle with an acceptable argument, text that sets
\* no address and starts no search, or a click that is not a language choice
SingleReplyPath(p) ==
    \/ /\ req[p].kind = "Message"
       /\ req[p].cmd \in Commands \ {"start", "kindle"}
    \/ /\ req[p].kind = "Message" /\ req[p].cmd = "kindle"
       /\ (req[p].text = EmptyStr \/ KindleInvalid(p))
    \/ /\ req[p].kind = "Message" /\ req[p].cmd = ""
       /\ \/ mcall[p].fn = "GetOrCreateUser" /\ mv[p].user.KindleEmail = EmptyStr
          \/ mcall[p].fn = "SetKindleEmail" /\ mv[p].err # ErrNil
    \/ req[p].kind = "Callback" /\ ~LanguageChoice(p)

\* C25: every handled update has got exactly one reply.
C25_ExactlyOneReply ==
    \A p \in Procs : Handled(p) => Len(out[p]) = 1

\* the replies per path over a repository that does not fail: one on the
\* single-reply paths, three for /start of a user without a KindleEmail, two
\* on every other path (/start of a user with a KindleEmail, an address that
\* was set, a search, a language choice)
RepliesPerPath ==
    \A p \in Procs :
        Handled(p) =>
            /\ Len(out[p]) \in 1..3
            /\ SingleReplyPath(p) <=> Len(out[p]) = 1
            /\ Len(out[p]) = 3 <=>
                  (IsStart(p) /\ mv[p].user.KindleEmail = EmptyStr)


\* C26: an update that has been handled has got at least one reply, also
\* when a repository operation failed while it was handled.
C26_RepliedWhenHandled ==
    \A p \in Procs : Handled(p) => Len(out[p]) >= 1

\* the update of worker p is a command that sets nothing: any command but
\* /kindle with an argument
PlainCommand(p) ==
    /\ req[p].kind = "Message" /\ req[p].cmd \in Commands
    /\ req[p].cmd = "kindle" => req[p].text = EmptyStr

\* C27: no step of handling /help, /whitelist, /settings, /cancel, /language,
\* /start, /kindle without an argument or an unknown command changes
\* KindleEmail, Language or BooksSent of a stored profile.
C27_CommandsChangeNothing ==
    [][ \A p \in Procs :
          (PlainCommand(p) /\ ~Idle(p) /\ StepOf(p)) => SamePreferences ]_vars

\* the same for profiles that were stored when the command arrived
PlainCommandKeepsKnownProfiles ==
    [][ \A p \in Procs :
          (PlainCommand(p) /\ req[p].had /\ ~Idle(p) /\ StepOf(p))
              => SamePreferences ]_vars

\* the step changes the KindleEmail of the stored profile i
AddressChanged(i) ==
    /\ i \in DOMAIN users /\ i \in DOMAIN users'
    /\ users'[i].KindleEmail # users[i].KindleEmail

\* the step is the write of an address capture by worker p: the
\* UpdatePreferences of SetKindleEmail, called for /kindle with an acceptable
\* argument or for endpoint-like acceptable text
CaptureWrite(p) ==
    /\ StepOf(p) /\ SetsAddress(p)
    /\ Top(p) = "repo_body" /\ rop[p].op = "UpdatePreferences"

\* C28: a profile is created with an empty KindleEmail, a stored KindleEmail
\* changes only in the write of an address capture, and the capture of
\* free text only writes over an empty KindleEmail.
C28_AddressOnlyByCapture ==
    [][ /\ \A i \in DOMAIN users' \ DOMAIN users :
              users'[i].KindleEmail = EmptyStr
        /\ \A i \in Ids :
              AddressChanged(i) =>
                 \E p \in Procs :
                    /\ CaptureWrite(p) /\ req[p].id = i
                    /\ req[p].cmd = "" => users[i].KindleEmail = EmptyStr
      ]_vars

\* a KindleEmail goes from empty to set only in the write of a capture
AddressSetOnlyByCapture ==
    [][ \A i \in Ids :
          (AddressChanged(i) /\ users[i].KindleEmail = EmptyStr) =>
              \E p \in Procs : CaptureWrite(p) /\ req[p].id = i ]_vars

\* the capture of free text only writes over an empty KindleEmail
TextKeepsAddress ==
    [][ \A p \in Procs :
          (CaptureWrite(p) /\ req[p].cmd = "") =>
              users[req[p].id].KindleEmail \in {EmptyStr, users'[req[p].id].KindleEmail}
      ]_vars

\* worker p holds mu, as the writer or as a reader
Holds(p) == mu.w = p \/ p \in mu.r

\* the step is a call of worker p on the bot API
Sends(p) == Len(out'[p]) > Len(out[p])

\* C29: a worker holds mu only between the two steps of a repository
\* operation, so not after the operation has returned and not at any
\* statement of the Manager or the Handler; and no worker holds mu in a step
\* that calls the bot API.
C29_NoLockDuringIO ==
    /\ [] \A p \in Procs : Holds(p) => Top(p) = "repo_body"
    /\ [][ \A p \in Procs : Sends(p) => ~Holds(p) /\ ~(Holds(p))' ]_vars

\* one worker has sent both replies of its update and holds nothing while
\* the other worker is inside a repository operation with mu locked
C29_Witness ==
    \E p, q \in Procs :
        /\ Handled(p) /\ Len(out[p]) = 2 /\ ~Holds(p)
        /\ q # p /\ mu.w = q /\ Top(q) = "repo_body"

\* the directory of the run has a *.json file that does not parse
HasMalformed(dir) == \E l \in DOMAIN dir.files : dir.files[l] = "malformed"

\* the tables hold every *.json file of the directory
FullyLoaded ==
    /\ DOMAIN fout.translations = DOMAIN fin.files
    /\ \A l \in DOMAIN fin.files :
          fin.files[l] = "json" /\ fout.translations[l] = FileTable(l)

\* C30: for a directory that does not exist or holds a *.json file that
\* does not parse, NewI18n returns an error and no instance; after an error
\* of NewI18n main stops and no update is ever handled; and updates are
\* handled only with the tables of every *.json file loaded.
C30_FailFastLoading ==
    /\ (fout.phase \in {"returned", "aborted", "serving"}
          /\ (~fin.exists \/ HasMalformed(fin)))
       => (fout.err # ErrNil /\ ~fout.inst)
    /\ fout.err # ErrNil => (fout.phase \in {"returned", "aborted"} /\ ~fout.inst
                             /\ fout.served = 0)
    /\ fout.phase = "serving" => (fout.inst /\ FullyLoaded)
    /\ fout.served > 0 => fout.phase = "serving"

\* en.json was loaded and a later file did not parse: NewI18n failed with
\* tables in the abandoned instance and ru.json not loaded, and main has
\* stopped before any update
C30_Witness ==
    /\ fout.phase = "aborted" /\ fout.err = ErrParse /\ ~fout.inst
    /\ fin.exists /\ LangEn \in DOMAIN fout.translations
    /\ LangRu \in DOMAIN fin.files /\ LangRu \notin DOMAIN fout.translations
    /\ fout.served = 0

Optional ==
    { <<"BOT_MODE", "BotMode", "polling">>, <<"DB_TYPE", "DBType", "memory">>,
      <<"LOG_LEVEL", "LogLevel", "info">>, <<"PORT", "Port", "8080">>,
      <<"DB_PORT", "DBPort", "5432">>, <<"DB_SSL_MODE", "DBSSLMode", "require">> }

\* the environments Load has to refuse
Refused(env) ==
    \/ env.TELEGRAM_BOT_TOKEN = ""
    \/ env.BOT_MODE = "webhook" /\ env.WEBHOOK_URL = ""
    \/ /\ env.DB_TYPE = "postgres"
       /\ "" \in {env.DB_HOST, env.DB_NAME, env.DB_USER, env.DB_PASSWORD}
    \/ /\ env.DB_TYPE = "cosmos"
       /\ "" \in {env.COSMOS_ENDPOINT, env.COSMOS_KEY, env.COSMOS_DATABASE,
                  env.COSMOS_CONTAINER}
    \/ env.DB_TYPE \notin {"", "memory", "postgres", "cosmos"}

\* C32: Load returns an error and no Config for an empty token (with the
\* token message, whatever else is wrong), for webhook mode without a URL,
\* for postgres or cosmos with one of its four settings empty and for an
\* unknown DB_TYPE; otherwise it returns a Config and no error, with the
\* default in the field of every optional variable that is unset and the
\* value of the variable in the field of every one that is set.
C32_LoadValidates ==
    fout.done =>
        /\ Refused(fin) => (fout.err # ErrNil /\ fout.isnil)
        /\ fin.TELEGRAM_BOT_TOKEN = "" => fout.err = ErrTokenRequired
        /\ ~Refused(fin) =>
              /\ fout.err = ErrNil /\ ~fout.isnil
              /\ fout.cfg.TelegramBotToken = fin.TELEGRAM_BOT_TOKEN
              /\ \A o \in Optional :
                    fout.cfg[o[2]] = IF fin[o[1]] = "" THEN o[3] ELSE fin[o[1]]

\* only the token is set: Load returned a Config with the six defaults
C32_Witness ==
    /\ fout.done /\ ~fout.isnil /\ fout.err = ErrNil
    /\ \A v \in DOMAIN fin : fin[v] = "" <=> v # "TELEGRAM_BOT_TOKEN"
    /\ fout.cfg.BotMode = "polling" /\ fout.cfg.DBType = "memory"
    /\ fout.cfg.LogLevel = "info" /\ fout.cfg.Port = "8080"
    /\ fout.cfg.DBPort = "5432" /\ fout.cfg.DBSSLMode = "require"

\* C33: a stored KindleEmail that is not empty is not empty after any step.
C33_ReadyStaysReady ==
    [][ \A i \in DOMAIN users :
          users[i].KindleEmail # EmptyStr =>
              (i \in DOMAIN users' /\ users'[i].KindleEmail # EmptyStr) ]_vars

\* the number of verbs in a template without %%
Placeholders(template) ==
    Cardinality({k \in 1..Len(template) : template[k] = "%"})

\* C34: every reply with a text is made by T with as many arguments as its
\* template has placeholders, and the text of a template without
\* placeholders is the template itself.
C34_ArgumentsMatchTemplate ==
    \A p \in Procs : \A k \in 1..Len(out[p]) :
        LET r == out[p][k]
        IN  r.key # "" =>
              LET template == HandlerEnTable[r.key]
              IN  /\ Len(r.args) = Placeholders(template)
                  /\ Placeholders(template) = 0 =>
                        T(HandlerI18n, LangEn, r.key, r.args).text = template

\* GetOrCreateUser of worker p has just returned to the Handler
GocReturned(p) == Top(p) \in {"hm_dispatch", "cb_dispatch"}

\* C35: when GetOrCreateUser has returned, rop and rv being its last
\* repository call and what that returned: after UpdateLastActive, failed or
\* not, the result is the fetched profile and no error; the result is an
\* error exactly when GetUser failed with something other than
\* ErrUserNotFound, in which case no further repository call was made, or
\* when SaveUser failed; and no step of GetOrCreateUser outside the
\* repository touches the store.
C35_BestEffortRefresh ==
    /\ [] \A p \in Procs :
            GocReturned(p) =>
              /\ rop[p].op \in {"GetUser", "SaveUser", "UpdateLastActive"}
              /\ rop[p].op = "UpdateLastActive" =>
                    /\ mv[p].err = ErrNil
                    /\ mv[p].user.TelegramID = req[p].id
                    /\ mv[p].user.CreatedAt <= mv[p].user.LastActive
              /\ mv[p].err # ErrNil <=>
                    /\ rv[p].err # ErrNil
                    /\ \/ rop[p].op = "GetUser" /\ rv[p].err # ErrUserNotFound
                       \/ rop[p].op = "SaveUser"
              /\ mv[p].err # ErrNil => mv[p].user = ZeroUser
    /\ [][ \A p \in Procs :
             (StepOf(p) /\ Top(p) \in {"goc_got", "goc_ret", "goc_saved"})
                => users' = users ]_vars

\* the refresh of a known user failed, and GetOrCreateUser has returned the
\* profile without an error
C35_Witness ==
    \E p \in Procs :
        /\ GocReturned(p) /\ req[p].had
        /\ rop[p].op = "UpdateLastActive" /\ rv[p].err = ErrStorage
        /\ mv[p].err = ErrNil /\ mv[p].user.TelegramID = req[p].id

\* the step is the body of repository operation op run by worker p
BodyOf(p, op) == StepOf(p) /\ Top(p) = "repo_body" /\ rop[p].op = op

\* C36: IncrementBooksSent of a stored profile adds one to its BooksSent,
\* sets its UpdatedAt and changes nothing else in the store;
\* UpdateLastActive sets its LastActive and changes nothing else; for an
\* identity without a profile both leave the store as it is.
C36_CounterAndActivityFrame ==
    [][ \A p \in Procs :
          LET i == rop[p].id
          IN  /\ BodyOf(p, "IncrementBooksSent") =>
                    IF i \in DOMAIN users
                    THEN users' = [users EXCEPT ![i] =
                                      [@ EXCEPT !.BooksSent = users[i].BooksSent + 1,
                                                !.UpdatedAt = now]]
                    ELSE users' = users
              /\ BodyOf(p, "UpdateLastActive") =>
                    IF i \in DOMAIN users
                    THEN users' = [users EXCEPT ![i] = [@ EXCEPT !.LastActive = now]]
                    ELSE users' = users
      ]_vars

\* a send was counted for one of two stored profiles at a later time than
\* its creation: its counter is 1 and its activity timestamp is the old one
C36_Witness ==
    \E p \in Procs : \E j \in DOMAIN users :
        /\ Idle(p) /\ rop[p].op = "IncrementBooksSent" /\ rv[p].err = ErrNil
        /\ j # rop[p].id /\ rop[p].id \in DOMAIN users
        /\ users[rop[p].id].BooksSent = 1
        /\ users[rop[p].id].UpdatedAt = now
        /\ users[rop[p].id].LastActive < now

\* C37: every stored profile is stored under its own TelegramID, which is
\* also its ID, so that no identity has two profiles; no step removes a
\* profile; and the profile GetOrCreateUser saves has the ID and the
\* TelegramID of the call, which for an update is the identity of its sender.
C37_OneProfilePerIdentity ==
    /\ [] \A i \in DOMAIN users :
            /\ users[i].TelegramID = i /\ users[i].ID = i
            /\ Cardinality({j \in DOMAIN users : users[j].TelegramID = i}) = 1
    /\ [][ DOMAIN users \subseteq DOMAIN users' ]_vars
    /\ [][ \A p \in Procs :
             (BodyOf(p, "SaveUser") /\ mcall[p].fn = "GetOrCreateUser") =>
                /\ mcall[p].id \in DOMAIN users'
                /\ users'[mcall[p].id].ID = mcall[p].id
                /\ users'[mcall[p].id].TelegramID = mcall[p].id
                /\ req[p].kind \in {"Message", "Callback"} =>
                      mcall[p].id = From(req[p].id).ID
         ]_vars

\* the profile GetOrCreateUser created for user 1 is still stored, under 1,
\* at a later time and after a later update of the same user
C37_Witness ==
    /\ 1 \in DOMAIN users
    /\ users[1].ID = 1 /\ users[1].TelegramID = 1
    /\ users[1].IsActive
    /\ users[1].CreatedAt < now /\ users[1].CreatedAt < users[1].LastActive

\* C38: a worker takes mu only in the first step of a repository operation,
\* not holding it before, and gives it up in the second, whatever the
\* operation returns; it holds mu nowhere else; while some worker is busy
\* some worker can take a step; and every worker that is busy gets done.
C38_OperationsTerminate ==
    /\ [] \A p \in Procs : Holds(p) => Top(p) = "repo_body"
    /\ [] ((\E p \in Procs : ~Idle(p)) => \E p \in Procs : ENABLED Step(p))
    /\ [][ \A p \in Procs :
             /\ (StepOf(p) /\ Top(p) = "repo_lock") => (~Holds(p) /\ Holds(p)')
             /\ (StepOf(p) /\ Top(p) = "repo_body") => (Holds(p) /\ ~(Holds(p))')
         ]_vars
    /\ \A p \in Procs : (~Idle(p)) ~> Idle(p)

\* one worker waits for mu, which the other holds inside an operation that
\* will return ErrUserNotFound
C38_Witness ==
    \E p, q \in Procs :
        /\ Top(p) = "repo_lock" /\ ~CanLock(mu, rop[p].op)
        /\ mu.w = q /\ Top(q) = "repo_body" /\ ~rv[q].exists
        /\ rop[q].op \in {"UpdatePreferences", "IncrementBooksSent"}

====
